---- MODULE Spec2Model ----
(***************************************************************************)
(* SX1255 transceiver control of linht-web: the register map, the GPIO     *)
(* line controller, the SPI register transport, the SX1255Controller and   *)
(* the hardware plugin's withController lifecycle.                         *)
(*                                                                         *)
(* Granularity: one step per system call (an SPI transfer, the open or     *)
(* close of a port, chip or line).  The Go code between two system calls   *)
(* touches only goroutine-local data and belongs to the step of the call   *)
(* that follows it (or, after the last call, the one before it).           *)
(***************************************************************************)
EXTENDS Integers, Sequences, FiniteSets, TLC

(***************************************************************************)
(* Bounds of the model.                                                    *)
(***************************************************************************)
NumProcs == 2        \* concurrent HTTP handlers
MaxCalls == 2        \* controller method calls of the concurrent handlers in one run
ScriptLen == 2       \* longest call sequence of a scripted caller
MaxFaults == 1       \* transfers that may fail in one run
FreqSamples == 3000  \* frequencies sampled across [400 MHz, 510 MHz]
MaxCloseFaults == 3  \* releases that may fail in one run of a Close
MixerMargin == 10    \* half-dB steps tried on either side of [-50 dB, 0 dB]

(***************************************************************************)
(* Register map.                                                           *)
(***************************************************************************)
RegMode == 0
RegFrfhRx == 1
RegFrfmRx == 2
RegFrflRx == 3
RegFrfhTx == 4
RegFrfmTx == 5
RegFrflTx == 6
RegVersion == 7
RegTxfe1 == 8
RegRxfe1 == 12
RegStat == 17
RegDigBridge == 19

ModeBitDriverEnable == 8
ModeBitTxEnable == 4
ModeBitRxEnable == 2
ModeBitRefEnable == 1

LnaGainMax == 1
LnaGainMinus6 == 2
LnaGainMinus12 == 3
LnaGainMinus24 == 4
LnaGainMinus36 == 5
LnaGainMinus48 == 6

DacGainMinus9 == 0
DacGainMinus6 == 1
DacGainMinus3 == 2
DacGainMax == 3

DefaultRegisterValues ==
  (0 :> 1) @@ (1 :> 192) @@ (2 :> 227) @@ (3 :> 142) @@ (4 :> 192) @@
  (5 :> 227) @@ (6 :> 142) @@ (8 :> 46) @@ (9 :> 36) @@ (10 :> 96) @@
  (11 :> 2) @@ (12 :> 47) @@ (13 :> 165) @@ (14 :> 6) @@ (16 :> 2)

ResetPulseMicros == 100     \* time.Sleep(100 * time.Microsecond)
ResetSettleMicros == 5000   \* time.Sleep(5 * time.Millisecond)
FreqMin == 400000000   \* lowest accepted frequency, Hz
FreqMax == 510000000   \* highest accepted frequency, Hz
ClockFreq == 32000000  \* cfg.SX1255.ClockFreq default (FXOSC), Hz

(***************************************************************************)
(* Go's integer operators on unsigned bytes and words.                     *)
(***************************************************************************)
RECURSIVE BitAnd(_, _)
BitAnd(a, b) ==
  IF a = 0 \/ b = 0 THEN 0
  ELSE (a % 2) * (b % 2) + 2 * BitAnd(a \div 2, b \div 2)

RECURSIVE BitOr(_, _)
BitOr(a, b) ==
  IF a = 0 THEN b
  ELSE IF b = 0 THEN a
  ELSE (IF a % 2 = 1 \/ b % 2 = 1 THEN 1 ELSE 0) + 2 * BitOr(a \div 2, b \div 2)

U8(x) == x % 256                   \* conversion to uint8
BitNot8(x) == 255 - x              \* ^uint8(x)
Shl8(x, n) == U8(x * 2^n)          \* x << n on a uint8
Shr(x, n) == x \div 2^n            \* x >> n

(***************************************************************************)
(* Frequency synthesis arithmetic.  TLC's integers are 32 bits wide, so    *)
(* the 64-bit products of the code are computed by long division and long  *)
(* multiplication, one bit per level.                                      *)
(***************************************************************************)
\* <<q, r>> with a * 2^k = q * c + r and 0 <= r < c
RECURSIVE ShlDivMod(_, _, _)
ShlDivMod(a, k, c) ==
  IF k = 0 THEN <<a \div c, a % c>>
  ELSE LET h == ShlDivMod(a, k - 1, c)
       IN  <<2 * h[1] + (2 * h[2]) \div c, (2 * h[2]) % c>>

\* <<q, r>> with c * f = q * 2^n + r and 0 <= r < 2^n
RECURSIVE MulShrMod(_, _, _)
MulShrMod(c, f, n) ==
  IF f = 0 THEN <<0, 0>>
  ELSE LET h == MulShrMod(c, f \div 2, n)
           t == 2 * h[2] + (f % 2) * c
       IN  <<2 * h[1] + t \div 2^n, t % 2^n>>

\* frf := uint32(math.Round(float64(freqHz) * math.Pow(2, 20) / float64(clockFreq)))
\* freqHz * 2^20 is exact in a float64; for clockFreq = 32 MHz the quotient is
\* never within 2^-16 of a half-integer (15625 is odd), so the float64 rounding
\* of the quotient cannot change the result of math.Round.
FrfTruncated(freqHz, clockFreq) == ShlDivMod(freqHz, 20, clockFreq)[1]

FrfFromHz(freqHz, clockFreq) ==
  LET h == ShlDivMod(freqHz, 20, clockFreq)
  IN  IF 2 * h[2] >= clockFreq THEN h[1] + 1 ELSE h[1]

\* freqHz := uint32(math.Round(float64(clockFreq) * float64(frf) / math.Pow(2, 20)))
\* the product is below 2^53 and the division is by a power of two: exact.
HzFromFrf(frf, clockFreq) ==
  LET h == MulShrMod(clockFreq, frf, 20)
  IN  IF 2 * h[2] >= 2^20 THEN h[1] + 1 ELSE h[1]

\* msb, mid, lsb := uint8((frf >> 16) & 0xFF), uint8((frf >> 8) & 0xFF), uint8(frf & 0xFF)
FrfBytes(frf) ==
  <<U8(BitAnd(Shr(frf, 16), 255)), U8(BitAnd(Shr(frf, 8), 255)), U8(BitAnd(frf, 255))>>

\* frf := (uint32(msb) << 16) | (uint32(mid) << 8) | uint32(lsb)
FrfCombineSwapped(msb, mid, lsb) == BitOr(BitOr(lsb * 65536, mid * 256), msb)

FrfCombine(msb, mid, lsb) == BitOr(BitOr(msb * 65536, mid * 256), lsb)

(***************************************************************************)
(* State.                                                                  *)
(***************************************************************************)
VARIABLES
  regs,       \* the chip's register file, 0x00..0x13
  regs0,      \* the register file when the run began (observation only)
  lineOwner,  \* kernel: which handler holds the reset and the TX/RX line (0: free)
  lineLevel,  \* kernel: output level of the two lines
  pc,         \* position of each handler's goroutine
  ctl,        \* each handler's SX1255Controller, with its SPIDevice and GPIOController
  cur,        \* index in hist of the method call each handler is running (0: none)
  loc,        \* bytes the running method has read into its local variables
  hist,       \* the controller method calls made so far, with their results
  bus,        \* the SPI transfers made so far, as an instrumented transport sees them
  faults,     \* how many more system calls may fail
  script,     \* the calls a scripted caller still has to make
  sys         \* the other system calls made so far: line accesses, closes, sleeps

vars ==
  <<regs, regs0, lineOwner, lineLevel, pc, ctl, cur, loc, hist, bus, faults, script, sys>>

Procs == 1..NumProcs
Addrs == 0..RegDigBridge
Byte == 0..255

NilController ==
  [spi |-> "nil", gpio |-> FALSE, chip |-> FALSE, resetLine |-> FALSE,
   txRxLine |-> FALSE, initialized |-> FALSE]

\* the controller NewSX1255Controller returns when every step succeeded
ReadyController ==
  [spi |-> "open", gpio |-> TRUE, chip |-> TRUE, resetLine |-> TRUE,
   txRxLine |-> TRUE, initialized |-> TRUE]

HoldsLines(p) == lineOwner["reset"] = p /\ lineOwner["txrx"] = p

Call(p) == hist[cur[p]]
InMethod(p, name) == pc[p] = "call" /\ Call(p).name = name

\* transfers the running call of p has made
K(p) == Cardinality({i \in DOMAIN bus : bus[i].call = cur[p]})

(***************************************************************************)
(* The chip at the other end of the bus: the first byte of a frame is the  *)
(* register address with the write flag in its top bit.                    *)
(***************************************************************************)
ChipWrite(r, tx) ==
  IF tx[1] >= 128 /\ (tx[1] - 128) \in Addrs
  THEN [r EXCEPT ![tx[1] - 128] = tx[2]]
  ELSE r

ChipResponse(r, tx) ==
  IF tx[1] < 128 /\ tx[1] \in Addrs THEN r[tx[1]] ELSE 0

(***************************************************************************)
(* SPIDevice.                                                              *)
(***************************************************************************)
\* tx := []byte{addr | 0x80, value}
WriteFrameNoFlag(addr, value) == <<addr, value>>

WriteFrame(addr, value) == <<BitOr(addr, 128), value>>

\* tx := []byte{addr & 0x7F, 0x00}
ReadFrame(addr) == <<BitAnd(addr, 127), 0>>

\* what a transfer may do: succeed, or fail with the frame lost or delivered
Outcomes == IF faults > 0 THEN {"ok", "lost", "garbled"} ELSE {"ok"}

\* s.conn.Tx(tx, rx): one full-duplex transfer on the bus.  Its callers,
\* SPIDevice.WriteRegister and ReadRegister, return at once when it fails and call
\* time.Sleep(10 * time.Microsecond) when it succeeds: slept records the delay
Transfer(p, tx, o) ==
  /\ bus' = Append(bus, [call |-> cur[p], by |-> p, tx |-> tx,
                         rx |-> IF o = "ok" THEN ChipResponse(regs, tx) ELSE 0,
                         ok |-> (o = "ok"), held |-> HoldsLines(p),
                         slept |-> (o = "ok")])
  /\ regs' = IF o \in {"ok", "garbled"} THEN ChipWrite(regs, tx) ELSE regs
  /\ faults' = IF o = "ok" THEN faults ELSE faults - 1

(***************************************************************************)
(* How a controller method ends and how it performs one register access.  *)
(* A method that is not the last step of its call leaves pc at "call".     *)
(***************************************************************************)
Return(p, r, v) ==
  /\ hist' = [hist EXCEPT ![cur[p]].res = r, ![cur[p]].val = v]
  /\ pc' = [pc EXCEPT ![p] = "ret"]

ReturnWithoutTransfer(p, r) ==
  /\ Return(p, r, 0)
  /\ UNCHANGED <<regs, bus, faults, loc>>

\* s.spi.WriteRegister(addr, value), and return when it fails or was the last access
WriteRegisterStepIgnoringError(p, addr, value, last) ==
  IF ctl[p].spi # "open"
  THEN ReturnWithoutTransfer(p, "TransportFailure")
  ELSE \E o \in Outcomes :
         /\ Transfer(p, WriteFrame(addr, value), o)
         /\ IF last THEN Return(p, IF o = "ok" THEN "ok" ELSE "TransportFailure", 0)
            ELSE UNCHANGED <<hist, pc>>
         /\ UNCHANGED loc

WriteRegisterStep(p, addr, value, last) ==
  IF ctl[p].spi # "open"
  THEN ReturnWithoutTransfer(p, "TransportFailure")
  ELSE \E o \in Outcomes :
         /\ Transfer(p, WriteFrame(addr, value), o)
         /\ IF o # "ok" THEN Return(p, "TransportFailure", 0)
            ELSE IF last THEN Return(p, "ok", 0)
            ELSE UNCHANGED <<hist, pc>>
         /\ UNCHANGED loc

\* v, err := s.spi.ReadRegister(addr); result is what the method returns when this
\* was its last access
ReadRegisterStepIgnoringError(p, addr, last, result) ==
  IF ctl[p].spi # "open"
  THEN ReturnWithoutTransfer(p, "TransportFailure")
  ELSE \E o \in Outcomes :
         /\ Transfer(p, ReadFrame(addr), o)
         /\ loc' = [loc EXCEPT ![p] = Append(@, ChipResponse(regs, ReadFrame(addr)))]
         /\ IF last THEN Return(p, IF o = "ok" THEN "ok" ELSE "TransportFailure", result)
            ELSE UNCHANGED <<hist, pc>>

ReadRegisterStep(p, addr, last, result) ==
  IF ctl[p].spi # "open"
  THEN ReturnWithoutTransfer(p, "TransportFailure")
  ELSE \E o \in Outcomes :
         /\ Transfer(p, ReadFrame(addr), o)
         /\ loc' = [loc EXCEPT ![p] = Append(@, ChipResponse(regs, ReadFrame(addr)))]
         /\ IF o # "ok" THEN Return(p, "TransportFailure", 0)
            ELSE IF last THEN Return(p, "ok", result)
            ELSE UNCHANGED <<hist, pc>>

\* the value the running method of p has read (reg)
RegRead(p) == IF loc[p] = <<>> THEN 0 ELSE loc[p][1]

\* reg, err := ReadRegister(addr); ...; return WriteRegister(addr, new)
ReadModifyWrite(p, addr, new) ==
  IF K(p) = 0
  THEN ReadRegisterStep(p, addr, FALSE, 0)
  ELSE WriteRegisterStep(p, addr, new, TRUE)

MethodFrame == <<regs0, lineOwner, lineLevel, ctl, cur, script, sys>>

(***************************************************************************)
(* SX1255Controller: frequency.                                            *)
(***************************************************************************)
SetFrequencyNoCheck(p, name, addrs) ==
  /\ InMethod(p, name)
  /\ WriteRegisterStep(p, addrs[K(p) + 1],
                       FrfBytes(FrfFromHz(Call(p).arg, ClockFreq))[K(p) + 1], K(p) = 2)
  /\ UNCHANGED MethodFrame

SetFrequency(p, name, addrs) ==
  /\ InMethod(p, name)
  /\ IF ~ctl[p].initialized THEN ReturnWithoutTransfer(p, "NotInitialized")
     ELSE IF Call(p).arg < FreqMin \/ Call(p).arg > FreqMax
     THEN ReturnWithoutTransfer(p, "InvalidArgument")
     ELSE WriteRegisterStep(p, addrs[K(p) + 1],
                            FrfBytes(FrfFromHz(Call(p).arg, ClockFreq))[K(p) + 1], K(p) = 2)
  /\ UNCHANGED MethodFrame

FrequencyRead(l) == HzFromFrf(FrfCombine(l[1], l[2], l[3]), ClockFreq)

GetFrequency(p, name, addrs) ==
  /\ InMethod(p, name)
  /\ IF ~ctl[p].initialized THEN ReturnWithoutTransfer(p, "NotInitialized")
     ELSE LET addr == addrs[K(p) + 1]
              read == Append(loc[p], ChipResponse(regs, ReadFrame(addr)))
          IN  ReadRegisterStep(p, addr, K(p) = 2,
                               IF K(p) = 2 THEN FrequencyRead(read) ELSE 0)
  /\ UNCHANGED MethodFrame

SetRxFrequency(p) == SetFrequency(p, "SetRxFrequency", <<RegFrfhRx, RegFrfmRx, RegFrflRx>>)
GetRxFrequency(p) == GetFrequency(p, "GetRxFrequency", <<RegFrfhRx, RegFrfmRx, RegFrflRx>>)
SetTxFrequency(p) == SetFrequency(p, "SetTxFrequency", <<RegFrfhTx, RegFrfmTx, RegFrflTx>>)
GetTxFrequency(p) == GetFrequency(p, "GetTxFrequency", <<RegFrfhTx, RegFrfmTx, RegFrflTx>>)

(***************************************************************************)
(* SX1255Controller: the enable bits of MODE.  A boolean argument is 1 for *)
(* true and 0 for false.                                                   *)
(***************************************************************************)
\* if enable { reg |= bit } else { reg &= ^uint8(bit) }
WithBitOverwrite(r, bit, enable) == IF enable = 1 THEN bit ELSE 0

WithBit(r, bit, enable) ==
  IF enable = 1 THEN BitOr(r, bit) ELSE BitAnd(r, BitNot8(bit))

EnableBit(p, name, bit) ==
  /\ InMethod(p, name)
  /\ IF ~ctl[p].initialized THEN ReturnWithoutTransfer(p, "NotInitialized")
     ELSE ReadModifyWrite(p, RegMode, WithBit(RegRead(p), bit, Call(p).arg))
  /\ UNCHANGED MethodFrame

EnableRx(p) == EnableBit(p, "EnableRx", ModeBitRxEnable)
EnableTxSetsRx(p) == EnableBit(p, "EnableTx", ModeBitRxEnable)
EnableTx(p) == EnableBit(p, "EnableTx", ModeBitTxEnable)
EnablePA(p) == EnableBit(p, "EnablePA", ModeBitDriverEnable)

(***************************************************************************)
(* SX1255Controller: gains.                                                *)
(***************************************************************************)
LnaGainSettingAtLeast(gainDb) ==
  IF gainDb >= 45 THEN LnaGainMax
  ELSE IF gainDb >= 39 THEN LnaGainMinus6
  ELSE IF gainDb >= 30 THEN LnaGainMinus12
  ELSE IF gainDb >= 18 THEN LnaGainMinus24
  ELSE IF gainDb >= 6 THEN LnaGainMinus36
  ELSE LnaGainMinus48

LnaGainSetting(gainDb) ==
  IF gainDb > 45 THEN LnaGainMax
  ELSE IF gainDb > 39 THEN LnaGainMinus6
  ELSE IF gainDb > 30 THEN LnaGainMinus12
  ELSE IF gainDb > 18 THEN LnaGainMinus24
  ELSE IF gainDb > 6 THEN LnaGainMinus36
  ELSE LnaGainMinus48

\* reg = (reg & 0x1F) | (lnaGainSetting << 5)
LnaField(r, setting) == BitOr(BitAnd(r, 31), Shl8(setting, 5))

SetLNAGain(p) ==
  /\ InMethod(p, "SetLNAGain")
  /\ IF ~ctl[p].initialized THEN ReturnWithoutTransfer(p, "NotInitialized")
     ELSE ReadModifyWrite(p, RegRxfe1, LnaField(RegRead(p), LnaGainSetting(Call(p).arg)))
  /\ UNCHANGED MethodFrame

\* if gainDb > 30 { gainDb = 30 }; pgaGainSetting := gainDb / 2
PgaGainSettingUnclamped(gainDb) == gainDb \div 2

PgaGainSetting(gainDb) == (IF gainDb > 30 THEN 30 ELSE gainDb) \div 2

\* reg = (reg & 0xE1) | (pgaGainSetting << 1)
PgaField(r, setting) == BitOr(BitAnd(r, 225), Shl8(setting, 1))

SetPGAGain(p) ==
  /\ InMethod(p, "SetPGAGain")
  /\ IF ~ctl[p].initialized THEN ReturnWithoutTransfer(p, "NotInitialized")
     ELSE ReadModifyWrite(p, RegRxfe1, PgaField(RegRead(p), PgaGainSetting(Call(p).arg)))
  /\ UNCHANGED MethodFrame

\* switch gainDb { case 0: .. case -3: .. case -6: .. case -9: .. default: .. }
DacGainSettingDefaultMax(gainDb) ==
  CASE gainDb = 0 -> DacGainMax
    [] gainDb = -3 -> DacGainMinus3
    [] gainDb = -6 -> DacGainMinus6
    [] gainDb = -9 -> DacGainMinus9
    [] OTHER -> DacGainMax

DacGainSetting(gainDb) ==
  CASE gainDb = 0 -> DacGainMax
    [] gainDb = -3 -> DacGainMinus3
    [] gainDb = -6 -> DacGainMinus6
    [] gainDb = -9 -> DacGainMinus9
    [] OTHER -> DacGainMinus3

\* reg = (reg & 0x8F) | (dacGainSetting << 4)
DacFieldWholeRegister(r, setting) == Shl8(setting, 4)

DacField(r, setting) == BitOr(BitAnd(r, 143), Shl8(setting, 4))

SetDACGain(p) ==
  /\ InMethod(p, "SetDACGain")
  /\ IF ~ctl[p].initialized THEN ReturnWithoutTransfer(p, "NotInitialized")
     ELSE ReadModifyWrite(p, RegTxfe1, DacField(RegRead(p), DacGainSetting(Call(p).arg)))
  /\ UNCHANGED MethodFrame

\* The float32 gain is held in half-dB units (it arrives as a multiple of 0.5 dB).
\* clamp to [-37.5, -7.5]; uint8(math.Round(float64(gainDb+37.5) / 2.0)): the
\* argument of Round is never negative, so Round is floor(x + 1/2).
MixerGainSettingTruncated(halfDb) ==
  LET g == IF halfDb < -75 THEN -75 ELSE IF halfDb > -15 THEN -15 ELSE halfDb
  IN  U8((g + 75) \div 4)

MixerGainSetting(halfDb) ==
  LET g == IF halfDb < -75 THEN -75 ELSE IF halfDb > -15 THEN -15 ELSE halfDb
  IN  U8((g + 75 + 2) \div 4)

\* reg = (reg & 0xF0) | (mixerGainSetting & 0x0F)
MixerField(r, setting) == BitOr(BitAnd(r, 240), BitAnd(setting, 15))

SetMixerGain(p) ==
  /\ InMethod(p, "SetMixerGain")
  /\ IF ~ctl[p].initialized THEN ReturnWithoutTransfer(p, "NotInitialized")
     ELSE ReadModifyWrite(p, RegTxfe1, MixerField(RegRead(p), MixerGainSetting(Call(p).arg)))
  /\ UNCHANGED MethodFrame

(***************************************************************************)
(* NewSX1255Controller, with NewSPIDevice and NewGPIOController inlined    *)
(* one system call per step, as withController's createController runs it. *)
(***************************************************************************)
PlugFrame == <<regs, regs0, cur, loc, hist, bus, faults, script, sys>>

\* handlers that have begun and may still make a call
Starting == {q \in Procs : pc[q] \in {"NewSPIDevice", "NewChip", "RequestReset",
                                       "RequestTxRx", "ready"}}

\* a request arrives: withController begins
HandlerBegin(p) ==
  /\ pc[p] = "idle"
  /\ Len(hist) + Cardinality(Starting) < MaxCalls
  /\ pc' = [pc EXCEPT ![p] = "NewSPIDevice"]
  /\ ctl' = [ctl EXCEPT ![p] = NilController]
  /\ UNCHANGED <<lineOwner, lineLevel>>
  /\ UNCHANGED PlugFrame

\* what the steps of a construction leave alone
BuildFrame == <<regs, regs0, cur, loc, hist, bus, script, sys>>

\* an acquisition succeeds, or fails while the budget of failures lasts
OpenOutcomes == IF faults > 0 THEN {"ok", "open failed", "connect failed"} ELSE {"ok"}
AcquireOutcomes == IF faults > 0 THEN {"ok", "failed"} ELSE {"ok"}

\* host.Init, spireg.Open and port.Connect; controller.spi = spi.  When Open fails
\* nothing is held and the handler returns; when Connect fails the port is open and
\* port.Close() follows
NewSPIDevice(p) ==
  /\ pc[p] = "NewSPIDevice"
  /\ \E o \in OpenOutcomes :
       /\ pc' = [pc EXCEPT ![p] = CASE o = "ok" -> "NewChip"
                                    [] o = "open failed" -> "idle"
                                    [] OTHER -> "AbortConnect"]
       /\ ctl' = [ctl EXCEPT ![p].spi = IF o = "open failed" THEN @ ELSE "open"]
       /\ faults' = IF o = "ok" THEN faults ELSE faults - 1
  /\ UNCHANGED <<lineOwner, lineLevel>>
  /\ UNCHANGED BuildFrame

\* port.Close() after a failed Connect; NewSPIDevice returns the error
AbortConnect(p) ==
  /\ pc[p] = "AbortConnect"
  /\ pc' = [pc EXCEPT ![p] = "idle"]
  /\ ctl' = [ctl EXCEPT ![p].spi = "closed"]
  /\ UNCHANGED <<lineOwner, lineLevel>>
  /\ UNCHANGED PlugFrame

\* gpiocdev.NewChip(chipPath); on failure NewGPIOController returns the error and
\* NewSX1255Controller goes on to spi.Close()
NewChip(p) ==
  /\ pc[p] = "NewChip"
  /\ \E o \in AcquireOutcomes :
       /\ pc' = [pc EXCEPT ![p] = IF o = "ok" THEN "RequestReset" ELSE "AbortSPI"]
       /\ ctl' = [ctl EXCEPT ![p].chip = (o = "ok")]
       /\ faults' = IF o = "ok" THEN faults ELSE faults - 1
  /\ UNCHANGED <<lineOwner, lineLevel>>
  /\ UNCHANGED BuildFrame

\* the kernel grants a line to one requester at a time
LineBusy(line) == lineOwner[line] # 0

\* chip.RequestLine(pin, AsOutput(0)): fails when the line is held, or for another
\* reason while the budget of failures lasts; the caller goes on to next on success
\* and to abort, its cleanup, on failure
RequestLineIgnoringError(p, line, field, next, abort) ==
  /\ UNCHANGED faults
  /\ pc' = [pc EXCEPT ![p] = next]
  /\ lineOwner' = IF LineBusy(line) THEN lineOwner
                  ELSE [lineOwner EXCEPT ![line] = p]
  /\ lineLevel' = IF LineBusy(line) THEN lineLevel
                  ELSE [lineLevel EXCEPT ![line] = 0]
  /\ ctl' = [ctl EXCEPT ![p][field] = TRUE,
                        ![p].gpio = @ \/ next = "ready",
                        ![p].initialized = @ \/ next = "ready"]

RequestLine(p, line, field, next, abort) ==
  IF LineBusy(line)
  THEN /\ pc' = [pc EXCEPT ![p] = abort]
       /\ UNCHANGED <<lineOwner, lineLevel, ctl, faults>>
  ELSE \E o \in AcquireOutcomes :
         /\ faults' = IF o = "ok" THEN faults ELSE faults - 1
         /\ IF o # "ok"
            THEN /\ pc' = [pc EXCEPT ![p] = abort]
                 /\ UNCHANGED <<lineOwner, lineLevel, ctl>>
            ELSE /\ pc' = [pc EXCEPT ![p] = next]
                 /\ lineOwner' = [lineOwner EXCEPT ![line] = p]
                 /\ lineLevel' = [lineLevel EXCEPT ![line] = 0]
                 \* after the last request: controller.gpio = gpio;
                 \* controller.initialized = true
                 /\ ctl' = [ctl EXCEPT ![p][field] = TRUE,
                                       ![p].gpio = @ \/ next = "ready",
                                       ![p].initialized = @ \/ next = "ready"]

RequestReset(p) ==
  /\ pc[p] = "RequestReset"
  /\ RequestLine(p, "reset", "resetLine", "RequestTxRx", "AbortChip")
  /\ UNCHANGED BuildFrame

RequestTxRx(p) ==
  /\ pc[p] = "RequestTxRx"
  /\ RequestLine(p, "txrx", "txRxLine", "ready", "AbortReset")
  /\ UNCHANGED BuildFrame

\* the cleanup of a failed construction: resetLine.Close(), chip.Close(), spi.Close()
AbortResetWithoutRelease(p) ==
  /\ pc[p] = "AbortReset"
  /\ pc' = [pc EXCEPT ![p] = "AbortChip"]
  /\ ctl' = [ctl EXCEPT ![p].resetLine = FALSE]
  /\ UNCHANGED <<lineOwner, lineLevel>>
  /\ UNCHANGED PlugFrame

AbortReset(p) ==
  /\ pc[p] = "AbortReset"
  /\ pc' = [pc EXCEPT ![p] = "AbortChip"]
  /\ lineOwner' = [lineOwner EXCEPT !["reset"] = 0]
  /\ ctl' = [ctl EXCEPT ![p].resetLine = FALSE]
  /\ UNCHANGED lineLevel
  /\ UNCHANGED PlugFrame

AbortChip(p) ==
  /\ pc[p] = "AbortChip"
  /\ pc' = [pc EXCEPT ![p] = "AbortSPI"]
  /\ ctl' = [ctl EXCEPT ![p].chip = FALSE]
  /\ UNCHANGED <<lineOwner, lineLevel>>
  /\ UNCHANGED PlugFrame

AbortSPI(p) ==
  /\ pc[p] = "AbortSPI"
  /\ pc' = [pc EXCEPT ![p] = "idle"]
  /\ ctl' = [ctl EXCEPT ![p].spi = "closed"]
  /\ UNCHANGED <<lineOwner, lineLevel>>
  /\ UNCHANGED PlugFrame

\* another program on the host claims or releases a free GPIO line
OtherConsumer(line) ==
  /\ lineOwner[line] \in {0, -1}
  /\ lineOwner' = [lineOwner EXCEPT ![line] = IF @ = 0 THEN -1 ELSE 0]
  /\ UNCHANGED <<lineLevel, pc, ctl>>
  /\ UNCHANGED PlugFrame

(***************************************************************************)
(* SX1255Controller.Close, deferred by withController: SPIDevice.Close,    *)
(* then GPIOController.Close (TX/RX line, reset line, chip), then          *)
(* s.initialized = false.                                                  *)
(***************************************************************************)
ReleaseLine(p, line) ==
  IF lineOwner[line] = p THEN [lineOwner EXCEPT ![line] = 0] ELSE lineOwner

CloseSPI(p) ==
  /\ pc[p] = "ret"
  /\ pc' = [pc EXCEPT ![p] = "CloseTxRx"]
  /\ ctl' = [ctl EXCEPT ![p].spi = IF @ = "nil" THEN "nil" ELSE "closed"]
  /\ UNCHANGED <<lineOwner, lineLevel>>
  /\ UNCHANGED PlugFrame

CloseTxRxWithoutRelease(p) ==
  /\ pc[p] = "CloseTxRx"
  /\ pc' = [pc EXCEPT ![p] = "CloseReset"]
  /\ ctl' = [ctl EXCEPT ![p].txRxLine = FALSE]
  /\ UNCHANGED <<lineOwner, lineLevel>>
  /\ UNCHANGED PlugFrame

CloseTxRx(p) ==
  /\ pc[p] = "CloseTxRx"
  /\ pc' = [pc EXCEPT ![p] = "CloseReset"]
  /\ lineOwner' = IF ctl[p].gpio /\ ctl[p].txRxLine THEN ReleaseLine(p, "txrx")
                  ELSE lineOwner
  /\ ctl' = [ctl EXCEPT ![p].txRxLine = FALSE]
  /\ UNCHANGED lineLevel
  /\ UNCHANGED PlugFrame

CloseReset(p) ==
  /\ pc[p] = "CloseReset"
  /\ pc' = [pc EXCEPT ![p] = "CloseChip"]
  /\ lineOwner' = IF ctl[p].gpio /\ ctl[p].resetLine THEN ReleaseLine(p, "reset")
                  ELSE lineOwner
  /\ ctl' = [ctl EXCEPT ![p].resetLine = FALSE]
  /\ UNCHANGED lineLevel
  /\ UNCHANGED PlugFrame

CloseChip(p) ==
  /\ pc[p] = "CloseChip"
  /\ pc' = [pc EXCEPT ![p] = "idle"]
  /\ ctl' = [ctl EXCEPT ![p].chip = FALSE, ![p].initialized = FALSE]
  /\ UNCHANGED <<lineOwner, lineLevel>>
  /\ UNCHANGED PlugFrame

(***************************************************************************)
(* Callers.  A handler calls one controller method, fn(controller); a      *)
(* scripted caller holds a ready controller and calls the methods of its   *)
(* script one after the other.                                             *)
(***************************************************************************)
Op(name, arg) == [name |-> name, arg |-> arg]

Enter(p, o) ==
  /\ hist' = Append(hist, [by |-> p, name |-> o.name, arg |-> o.arg,
                           res |-> "pending", val |-> 0])
  /\ cur' = [cur EXCEPT ![p] = Len(hist) + 1]
  /\ loc' = [loc EXCEPT ![p] = <<>>]
  /\ pc' = [pc EXCEPT ![p] = "call"]
  /\ UNCHANGED <<regs, regs0, lineOwner, lineLevel, ctl, bus, faults, sys>>

Invoke(p, o) ==
  /\ pc[p] = "ready"
  /\ Len(hist) < MaxCalls
  /\ Enter(p, o)
  /\ UNCHANGED script

Scripted(p) ==
  /\ pc[p] \in {"ready", "ret"}
  /\ script # <<>>
  /\ Enter(p, Head(script))
  /\ script' = Tail(script)

\* the register file a run starts from: the default table applied, VERSION 0x11
BaseRegs ==
  [a \in Addrs |-> IF a \in DOMAIN DefaultRegisterValues THEN DefaultRegisterValues[a]
                   ELSE IF a = RegVersion THEN 17 ELSE 0]

\* no handler running
InitIdle(r, f, sc) ==
  /\ regs = r /\ regs0 = r
  /\ lineOwner = [l \in {"reset", "txrx"} |-> 0]
  /\ lineLevel = [l \in {"reset", "txrx"} |-> 0]
  /\ pc = [p \in Procs |-> "idle"]
  /\ ctl = [p \in Procs |-> NilController]
  /\ cur = [p \in Procs |-> 0]
  /\ loc = [p \in Procs |-> <<>>]
  /\ hist = <<>> /\ bus = <<>>
  /\ faults = f /\ script = sc /\ sys = <<>>

\* handler 1 has constructed its controller
InitReady(r, f, sc) ==
  /\ regs = r /\ regs0 = r
  /\ lineOwner = [l \in {"reset", "txrx"} |-> 1]
  /\ lineLevel = [l \in {"reset", "txrx"} |-> 0]
  /\ pc = [p \in Procs |-> IF p = 1 THEN "ready" ELSE "idle"]
  /\ ctl = [p \in Procs |-> IF p = 1 THEN ReadyController ELSE NilController]
  /\ cur = [p \in Procs |-> 0]
  /\ loc = [p \in Procs |-> <<>>]
  /\ hist = <<>> /\ bus = <<>>
  /\ faults = f /\ script = sc /\ sys = <<>>

(***************************************************************************)
(* Spec: concurrent handlers of the hardware plugin.                       *)
(***************************************************************************)
Menu == {Op("SetRxFrequency", 434000000), Op("SetTxFrequency", 446000000)}

Init == InitIdle(BaseRegs, 0, <<>>)

\* withController: createController, then fn, then the deferred Close
Handler(p) ==
  \/ HandlerBegin(p) \/ NewSPIDevice(p) \/ NewChip(p)
  \/ RequestReset(p) \/ RequestTxRx(p)
  \/ AbortReset(p) \/ AbortChip(p) \/ AbortSPI(p)
  \/ CloseSPI(p) \/ CloseTxRx(p) \/ CloseReset(p) \/ CloseChip(p)

Next ==
  \/ \E line \in {"reset", "txrx"} : OtherConsumer(line)
  \/ \E p \in Procs :
    \/ Handler(p)
    \/ \E o \in Menu : Invoke(p, o)
    \/ SetRxFrequency(p) \/ SetTxFrequency(p)

Spec == Init /\ [][Next]_vars

(***************************************************************************)
(* SpecSameRegister: concurrent handlers whose requests are read-modify-   *)
(* write operations on one and the same register.                          *)
(***************************************************************************)
\* register and bit mask of the field a read-modify-write method sets
FieldReg(name) ==
  CASE name \in {"EnableRx", "EnableTx", "EnablePA"} -> RegMode
    [] name \in {"SetLNAGain", "SetPGAGain"} -> RegRxfe1
    [] OTHER -> RegTxfe1

FieldMask(name) ==
  CASE name = "EnableRx" -> 2
    [] name = "EnableTx" -> 4
    [] name = "EnablePA" -> 8
    [] name = "SetLNAGain" -> 224
    [] name = "SetPGAGain" -> 30
    [] name = "SetDACGain" -> 112
    [] OTHER -> 15

SameRegisterMenu ==
  { Op("EnableRx", 1), Op("EnableTx", 1), Op("EnablePA", 1),
    Op("SetLNAGain", 40), Op("SetPGAGain", 10),
    Op("SetDACGain", 0), Op("SetMixerGain", -40) }

\* a request for the register the earlier requests of the run are for
InvokeOnSameRegister(p, o) ==
  /\ \A c \in DOMAIN hist : FieldReg(hist[c].name) = FieldReg(o.name)
  /\ Invoke(p, o)

NextSameRegister ==
  \/ \E line \in {"reset", "txrx"} : OtherConsumer(line)
  \/ \E p \in Procs :
    \/ Handler(p)
    \/ \E o \in SameRegisterMenu : InvokeOnSameRegister(p, o)
    \/ EnableRx(p) \/ EnableTx(p) \/ EnablePA(p)
    \/ SetLNAGain(p) \/ SetPGAGain(p) \/ SetDACGain(p) \/ SetMixerGain(p)

SpecSameRegister == Init /\ [][NextSameRegister]_vars

(***************************************************************************)
(* Properties of Spec.                                                     *)
(***************************************************************************)
FrequencySetters == {"SetRxFrequency", "SetTxFrequency"}
ReadModifyWriters ==
  {"EnableRx", "EnableTx", "EnablePA", "SetLNAGain", "SetPGAGain", "SetDACGain",
   "SetMixerGain"}

\* the transfers of call c, as positions on the bus
TransfersOf(c) == {i \in DOMAIN bus : bus[i].call = c}

\* the transfers of call c form one uninterrupted run on the bus
Contiguous(c) ==
  \A i, k \in TransfersOf(c) : \A j \in i..k : bus[j].call = c

\* C2: the register writes of a SetRxFrequency or SetTxFrequency call form an
\* uninterrupted run on the SPI bus: no transfer of another call lies between the
\* MSB, MID and LSB writes of one call, however the handlers are scheduled.
C2_FrequencyWritesNeverInterleave ==
  \A c \in DOMAIN hist : hist[c].name \in FrequencySetters => Contiguous(c)

\* C2 witness: handler p has set the RX frequency and is still inside its Close
\* while handler q has issued two of the three writes of SetTxFrequency.
C2_Witness ==
  \E p, q \in Procs :
    /\ p # q
    /\ pc[p] = "CloseChip" /\ hist[cur[p]].name = "SetRxFrequency"
    /\ hist[cur[p]].res = "ok"
    /\ InMethod(q, "SetTxFrequency") /\ K(q) = 2

\* the byte call c wrote (its last transfer)
Written(c) == bus[CHOOSE i \in TransfersOf(c) : \A j \in TransfersOf(c) : j <= i].tx[2]

\* C3: the read and the write of a read-modify-write call are adjacent on the bus,
\* and the field set by every such call that returned successfully is still in the
\* register: no update is lost to a stale read of a concurrent call.
C3_ReadModifyWriteNeverInterleaves ==
  \A c \in DOMAIN hist :
    hist[c].name \in ReadModifyWriters =>
      /\ Contiguous(c)
      /\ hist[c].res = "ok" =>
           BitAnd(regs[FieldReg(hist[c].name)], FieldMask(hist[c].name))
             = BitAnd(Written(c), FieldMask(hist[c].name))

\* C3 witness: two handlers, one still inside its Close, have both returned
\* successfully from read-modify-write calls on the same register.
C3_Witness ==
  \E p, q \in Procs :
    /\ p # q /\ pc[p] = "CloseChip" /\ pc[q] = "ret"
    /\ hist[cur[p]].name = "EnableRx" /\ hist[cur[p]].res = "ok"
    /\ hist[cur[q]].name = "EnableTx" /\ hist[cur[q]].res = "ok"

\* a controller that can issue register transfers: constructed, SPI port open
Ready(p) == ctl[p].initialized /\ ctl[p].spi = "open"

SeqsUpTo(S, n) == UNION {[1..k -> S] : k \in 1..n}

\* frequencies across the accepted range, with steps that run through the
\* residues modulo 15625 (FXOSC / 2^11), and the values around its two ends
FreqInputs ==
  {FreqMin + 36661 * i : i \in 0..(FreqSamples - 1)}
    \cup {FreqMin - 1, FreqMin, 434000000, FreqMax, FreqMax + 1}

FreqScripts ==
  {<<Op("SetRxFrequency", f), Op("GetRxFrequency", 0)>> : f \in FreqInputs}
    \cup {<<Op("SetTxFrequency", f), Op("GetTxFrequency", 0)>> : f \in FreqInputs}

InitFreq == \E f \in {0, MaxFaults} : \E sc \in FreqScripts : InitReady(BaseRegs, f, sc)

NextFreq ==
  \E p \in Procs :
    \/ Scripted(p)
    \/ SetRxFrequency(p) \/ GetRxFrequency(p)
    \/ SetTxFrequency(p) \/ GetTxFrequency(p)

SpecFreq == InitFreq /\ [][NextFreq]_vars

\* the register file with one register replaced
RegsWith(a, v) == [BaseRegs EXCEPT ![a] = v]

ModeOps == {Op(n, b) : n \in {"EnableRx", "EnableTx", "EnablePA"}, b \in {0, 1}}

InitMode ==
  \E v \in Byte : \E sc \in SeqsUpTo(ModeOps, ScriptLen) :
    InitReady(RegsWith(RegMode, v), 0, sc)

NextMode == \E p \in Procs : Scripted(p) \/ EnableRx(p) \/ EnableTx(p) \/ EnablePA(p)

SpecMode == InitMode /\ [][NextMode]_vars

\* DAC gains in dB and mixer gains in half-dB
TxGainOps ==
  {Op("SetDACGain", g) : g \in {0, -6, -100}}
    \cup {Op("SetMixerGain", h) : h \in {-100, -40, -15}}

InitTxGain ==
  \E v \in Byte : \E sc \in SeqsUpTo(TxGainOps, ScriptLen) :
    InitReady(RegsWith(RegTxfe1, v), 0, sc)

NextTxGain == \E p \in Procs : Scripted(p) \/ SetDACGain(p) \/ SetMixerGain(p)

SpecTxGain == InitTxGain /\ [][NextTxGain]_vars

InitRxGain ==
  \E v \in Byte : \E g \in Byte :
    InitReady(RegsWith(RegRxfe1, v), 0, <<Op("SetLNAGain", g)>>)

NextRxGain == \E p \in Procs : Scripted(p) \/ SetLNAGain(p)

SpecRxGain == InitRxGain /\ [][NextRxGain]_vars

(***************************************************************************)
(* Properties of SpecFreq.                                                 *)
(***************************************************************************)
Returned(c) == c \in DOMAIN hist /\ hist[c].res # "pending"
Succeeded(c) == c \in DOMAIN hist /\ hist[c].res = "ok"

\* C1: on a ready controller, SetRxFrequency(f) and SetTxFrequency(f) with
\* f < 400,000,000 or f > 510,000,000 return the invalid-argument error without a
\* single SPI transfer, so every register keeps its value; 400,000,000 and
\* 510,000,000 are accepted: the call is not rejected and, its transfers
\* succeeding, returns success.
C1_OutOfRangeFrequencyRejectedBeforeAnyWrite ==
  \A c \in DOMAIN hist :
    hist[c].name \in FrequencySetters =>
      /\ (hist[c].arg < 400000000 \/ hist[c].arg > 510000000) =>
           /\ TransfersOf(c) = {}
           /\ regs = regs0
           /\ Returned(c) => hist[c].res = "InvalidArgument"
      /\ (hist[c].arg \in {400000000, 510000000} /\ Returned(c)) =>
           /\ hist[c].res # "InvalidArgument"
           /\ (\A i \in TransfersOf(c) : bus[i].ok) => hist[c].res = "ok"

\* C1 witness: on the ready controller the call with 510,000,001 Hz has returned
\* its error.
C1_Witness ==
  /\ Returned(1) /\ hist[1].by = 1 /\ hist[1].name = "SetTxFrequency"
  /\ hist[1].arg = 510000001 /\ hist[1].res = "InvalidArgument"

Abs(x) == IF x < 0 THEN -x ELSE x

\* C5: SetRxFrequency(f) followed by GetRxFrequency, and SetTxFrequency(f) followed
\* by GetTxFrequency, all transfers succeeding and f in [400 MHz, 510 MHz] with
\* FXOSC = 32 MHz, returns a frequency within ceil(FXOSC / 2^20) = 31 Hz of f.
C5_FrequencyRoundTrip ==
  (Len(hist) = 2 /\ Succeeded(1) /\ Succeeded(2)) =>
    Abs(hist[2].val - hist[1].arg) <= (32000000 + 2^20 - 1) \div 2^20

\* C5 witness: a round trip through the RX registers that has returned a frequency
\* other than the one set.
C5_Witness ==
  /\ Len(hist) = 2 /\ Succeeded(1) /\ Succeeded(2)
  /\ hist[1].name = "SetRxFrequency" /\ hist[2].name = "GetRxFrequency"
  /\ Abs(hist[2].val - hist[1].arg) >= 15

\* round(f * 2^20 / 32,000,000) = round(f * 512 / 15625), by quotient and remainder
FrfAt32MHz(f) == 512 * (f \div 15625) + ((f % 15625) * 1024 + 15625) \div 31250

\* C6: a successful SetRxFrequency(f) issues exactly three transfers, the writes of
\* registers 0x01, 0x02, 0x03 in this order with the bytes (Frf >> 16) & 0xFF,
\* (Frf >> 8) & 0xFF and Frf & 0xFF of Frf = round(f * 2^20 / FXOSC), and writes
\* no other register; SetTxFrequency does the same to 0x04, 0x05, 0x06.
C6_FrequencyWordWrittenMsbMidLsb ==
  (Succeeded(1) /\ hist[1].name \in FrequencySetters) =>
    LET base == IF hist[1].name = "SetRxFrequency" THEN 0 ELSE 3
        frf == FrfAt32MHz(hist[1].arg)
    IN  /\ TransfersOf(1) = {1, 2, 3}
        /\ bus[1].tx = <<128 + base + 1, (frf \div 65536) % 256>>
        /\ bus[2].tx = <<128 + base + 2, (frf \div 256) % 256>>
        /\ bus[3].tx = <<128 + base + 3, frf % 256>>
        /\ \A a \in Addrs \ {base + 1, base + 2, base + 3} : regs[a] = regs0[a]

\* C6 witness: SetRxFrequency has returned success for a frequency whose tuning
\* word is rounded up and has three non-zero bytes.
C6_Witness ==
  /\ Succeeded(1) /\ hist[1].name = "SetRxFrequency" /\ Len(hist) = 1
  /\ 2 * (((hist[1].arg % 15625) * 512) % 15625) > 15625
  /\ bus[2].tx[2] # 0 /\ bus[3].tx[2] # 0

(***************************************************************************)
(* Properties of SpecMode.                                                 *)
(***************************************************************************)
\* bit n of the byte r, and r with bit n forced to b
BitOf(r, n) == (r \div 2^n) % 2
Forced(r, n, b) == r - BitOf(r, n) * 2^n + b * 2^n

ModeBitNumber(name) ==
  CASE name = "EnableRx" -> 1 [] name = "EnableTx" -> 2 [] name = "EnablePA" -> 3

FirstOf(S) == CHOOSE i \in S : \A j \in S : i <= j
LastOf(S) == CHOOSE i \in S : \A j \in S : j <= i

\* C7: EnableRx(b), EnableTx(b) and EnablePA(b) each perform one read of MODE (0x00)
\* followed by one write of MODE whose value is the value read with exactly one bit
\* forced to b (bit 1 for RX, bit 2 for TX, bit 3 for the PA driver) and the other
\* seven bits as read, for every prior MODE value and both values of b.
C7_EnableIsOneReadThenOneWriteOfOneBit ==
  \A c \in DOMAIN hist :
    hist[c].name \in {"EnableRx", "EnableTx", "EnablePA"} =>
      LET T == TransfersOf(c)
      IN  /\ Cardinality(T) <= 2
          /\ T # {} => bus[FirstOf(T)].tx = <<0, 0>>
          /\ Succeeded(c) =>
               /\ Cardinality(T) = 2
               /\ bus[FirstOf(T)].rx = (IF c = 1 THEN regs0[0] ELSE bus[FirstOf(T) - 1].tx[2])
               /\ bus[LastOf(T)].tx =
                    <<128, Forced(bus[FirstOf(T)].rx, ModeBitNumber(hist[c].name), hist[c].arg)>>
               /\ \A n \in 0..7 \ {ModeBitNumber(hist[c].name)} :
                    BitOf(bus[LastOf(T)].tx[2], n) = BitOf(bus[FirstOf(T)].rx, n)
               /\ c = Len(hist) => regs[0] = bus[LastOf(T)].tx[2]

\* C7 witness: EnablePA(false) has read 0x0F from MODE and written 0x07.
C7_Witness ==
  /\ Len(hist) = 1 /\ Succeeded(1) /\ hist[1].name = "EnablePA" /\ hist[1].arg = 0
  /\ Len(bus) = 2 /\ bus[1].rx = 15 /\ bus[2].tx = <<128, 7>>

\* EnableRx(true) followed by EnableTx(true) have both returned success
RxThenTxEnabled ==
  /\ Len(hist) = 2 /\ Succeeded(1) /\ Succeeded(2)
  /\ hist[1].name = "EnableRx" /\ hist[1].arg = 1
  /\ hist[2].name = "EnableTx" /\ hist[2].arg = 1

\* C8 as stated: after EnableRx(true) followed by EnableTx(true), starting from any
\* MODE value, MODE has the REF, RX and TX bits set and the DRIVER bit equal to its
\* value before either call.
C8_AsStated ==
  RxThenTxEnabled =>
    /\ BitOf(regs[0], 0) = 1 /\ BitOf(regs[0], 1) = 1 /\ BitOf(regs[0], 2) = 1
    /\ BitOf(regs[0], 3) = BitOf(regs0[0], 3)

\* C8: after EnableRx(true) followed by EnableTx(true), starting from any MODE
\* value, MODE has the RX and TX bits set, and the REF bit, the DRIVER bit and
\* bits 7:4 equal to their values before either call.
C8_RxAndTxSetOtherBitsKept ==
  RxThenTxEnabled =>
    /\ BitOf(regs[0], 1) = 1 /\ BitOf(regs[0], 2) = 1
    /\ \A n \in {0, 3, 4, 5, 6, 7} : BitOf(regs[0], n) = BitOf(regs0[0], n)

\* C8 witness: from MODE = 0x08 (REF clear, DRIVER set) the two calls leave 0x0E.
C8_Witness == RxThenTxEnabled /\ regs0[0] = 8 /\ regs[0] = 14

(***************************************************************************)
(* Properties of SpecTxGain.                                               *)
(***************************************************************************)
CallsOf(name) == {c \in DOMAIN hist : hist[c].name = name}

\* C9: SetDACGain changes only bits 6:4 of TXFE1 and SetMixerGain only bits 3:0:
\* after any sequence of successful SetDACGain and SetMixerGain calls the DAC field
\* holds the code of the most recent SetDACGain, the mixer field the code of the
\* most recent SetMixerGain (each its original value when there was no such call),
\* and bit 7 keeps its original value.
C9_Txfe1FieldIsolation ==
  (\A c \in DOMAIN hist : Succeeded(c)) =>
    LET dac == CallsOf("SetDACGain")
        mix == CallsOf("SetMixerGain")
        reg == regs[RegTxfe1]
        old == regs0[RegTxfe1]
    IN  /\ (reg \div 16) % 8 = (IF dac = {} THEN (old \div 16) % 8
                                ELSE DacGainSetting(hist[LastOf(dac)].arg))
        /\ reg % 16 = (IF mix = {} THEN old % 16
                       ELSE MixerGainSetting(hist[LastOf(mix)].arg) % 16)
        /\ reg \div 128 = old \div 128

\* C9 witness: from TXFE1 = 0xFF, SetDACGain(0 dB) then SetMixerGain(-20 dB) leave
\* 0xB9: bit 7 kept, DAC code 3, mixer code 9.
C9_Witness ==
  /\ Len(hist) = 2 /\ Succeeded(1) /\ Succeeded(2)
  /\ hist[1].name = "SetDACGain" /\ hist[1].arg = 0
  /\ hist[2].name = "SetMixerGain" /\ hist[2].arg = -40
  /\ regs0[RegTxfe1] = 255 /\ regs[RegTxfe1] = 185

(***************************************************************************)
(* Properties of SpecRxGain.                                               *)
(***************************************************************************)
LnaLadder(g) ==
  IF g > 45 THEN 1
  ELSE IF 39 < g /\ g <= 45 THEN 2
  ELSE IF 30 < g /\ g <= 39 THEN 3
  ELSE IF 18 < g /\ g <= 30 THEN 4
  ELSE IF 6 < g /\ g <= 18 THEN 5
  ELSE 6

\* C10: SetLNAGain(g), for every g in 0..255, writes RXFE1 with bits 7:5 equal to
\* code 1 if g > 45, 2 if 39 < g <= 45, 3 if 30 < g <= 39, 4 if 18 < g <= 30,
\* 5 if 6 < g <= 18 and 6 otherwise, and with bits 4:0 equal to the value read from
\* RXFE1 before the write.
C10_LnaCodeLadder ==
  (Succeeded(1) /\ hist[1].name = "SetLNAGain") =>
    /\ TransfersOf(1) = {1, 2}
    /\ bus[1].tx = <<12, 0>> /\ bus[1].rx = regs0[12]
    /\ bus[2].tx[1] = 128 + 12
    /\ bus[2].tx[2] \div 32 = LnaLadder(hist[1].arg)
    /\ bus[2].tx[2] % 32 = bus[1].rx % 32
    /\ regs[12] = bus[2].tx[2]

\* C10 witness: SetLNAGain(45) has read 0x3F from RXFE1 and written 0x5F (code 2).
C10_Witness ==
  /\ Succeeded(1) /\ hist[1].name = "SetLNAGain" /\ hist[1].arg = 45
  /\ bus[1].rx = 63 /\ bus[2].tx = <<140, 95>>

(***************************************************************************)
(* SpecGain: one gain setter called with every value of its argument on a  *)
(* ready controller, from every value of the register it modifies.         *)
(***************************************************************************)
Int8 == (-128)..127

\* mixer gains in half-dB: [-50 dB, 0 dB] and MixerMargin steps on either side
MixerInputs == (-100 - MixerMargin)..MixerMargin

GainOps ==
  {Op("SetPGAGain", g) : g \in Byte} \cup {Op("SetDACGain", g) : g \in Int8}
    \cup {Op("SetMixerGain", h) : h \in MixerInputs}

InitGain ==
  \E v \in Byte : \E o \in GainOps :
    InitReady([BaseRegs EXCEPT ![RegRxfe1] = v, ![RegTxfe1] = v], 0, <<o>>)

NextGain ==
  \E p \in Procs : Scripted(p) \/ SetPGAGain(p) \/ SetDACGain(p) \/ SetMixerGain(p)

SpecGain == InitGain /\ [][NextGain]_vars

Min(a, b) == IF a < b THEN a ELSE b
Max(a, b) == IF a > b THEN a ELSE b

\* C11: SetPGAGain(g), for every g in 0..255, writes RXFE1 with bits 4:1 equal to
\* min(g, 30) div 2, a value in 0..15, and with bits 7:5 and bit 0 equal to the
\* value read from RXFE1 before the write.
C11_PgaFieldClampedAndIsolated ==
  (Succeeded(1) /\ hist[1].name = "SetPGAGain") =>
    /\ TransfersOf(1) = {1, 2}
    /\ bus[1].tx = <<12, 0>> /\ bus[1].rx = regs0[12]
    /\ bus[2].tx[1] = 128 + 12
    /\ (bus[2].tx[2] \div 2) % 16 = Min(hist[1].arg, 30) \div 2
    /\ bus[2].tx[2] \div 32 = bus[1].rx \div 32
    /\ bus[2].tx[2] % 2 = bus[1].rx % 2
    /\ regs[12] = bus[2].tx[2]

\* C11 witness: SetPGAGain(31) has read 0xE1 from RXFE1 and written 0xFF (field 15).
C11_Witness ==
  /\ Succeeded(1) /\ hist[1].name = "SetPGAGain" /\ hist[1].arg = 31
  /\ bus[1].rx = 225 /\ bus[2].tx = <<140, 255>>

\* C12: SetDACGain(g), for every g in -128..127, writes TXFE1 bits 6:4 with the
\* code for 0 dB (3) when g = 0, for -3 dB (2) when g = -3, for -6 dB (1) when
\* g = -6, for -9 dB (0) when g = -9, four pairwise distinct codes, and with the
\* -3 dB code for every other g.
C12_DacCodes ==
  (Succeeded(1) /\ hist[1].name = "SetDACGain") =>
    LET g == hist[1].arg
        code == (bus[2].tx[2] \div 16) % 8
    IN  /\ TransfersOf(1) = {1, 2}
        /\ bus[1].tx = <<8, 0>> /\ bus[2].tx[1] = 128 + 8
        /\ code = (IF g = 0 THEN 3 ELSE IF g = -6 THEN 1 ELSE IF g = -9 THEN 0 ELSE 2)
        /\ regs[8] = bus[2].tx[2]

\* C12 witness: SetDACGain(-100) has read 0x00 from TXFE1 and written 0x20.
C12_Witness ==
  /\ Succeeded(1) /\ hist[1].name = "SetDACGain" /\ hist[1].arg = -100
  /\ bus[1].rx = 0 /\ bus[2].tx = <<136, 32>>

\* C13: SetMixerGain(d), for every d that is a multiple of 0.5 dB in a bounded
\* range around [-50, 0], writes TXFE1 bits 3:0 with the integer nearest to
\* (clamp(d, -37.5, -7.5) + 37.5) / 2 (a half rounds up), a value in 0..15:
\* -7.5 gives 15, -37.5 and every d below it give 0.  In half-dB units h = 2d,
\* the field n satisfies 4n - 2 <= clamp(h, -75, -15) + 75 < 4n + 2.
C13_MixerCode ==
  (Succeeded(1) /\ hist[1].name = "SetMixerGain") =>
    LET h == hist[1].arg
        c == Min(Max(h, -75), -15) + 75
        n == bus[2].tx[2] % 16
    IN  /\ TransfersOf(1) = {1, 2}
        /\ bus[1].tx = <<8, 0>> /\ bus[2].tx[1] = 128 + 8
        /\ 4 * n - 2 <= c /\ c < 4 * n + 2
        /\ h = -15 => n = 15
        /\ h <= -75 => n = 0
        /\ regs[8] = bus[2].tx[2]

\* C13 witness: SetMixerGain(-36.5 dB) has written mixer code 1: (1.0 / 2) rounds up.
C13_Witness ==
  /\ Succeeded(1) /\ hist[1].name = "SetMixerGain" /\ hist[1].arg = -73
  /\ bus[1].rx = 240 /\ bus[2].tx = <<136, 241>>

(***************************************************************************)
(* GPIOController: the line accessors.  Every line access and sleep is one *)
(* step and one entry of sys.                                              *)
(***************************************************************************)
\* system calls the running call of p has made other than SPI transfers
G(p) == Cardinality({i \in DOMAIN sys : sys[i].call = cur[p]})

SysCall(p, op, on, v, ok) ==
  sys' = Append(sys, [call |-> cur[p], by |-> p, op |-> op, on |-> on, v |-> v, ok |-> ok])

\* line.SetValue(value): it may fail with the level changed or not
SetValue(p, line, value, o) ==
  /\ SysCall(p, "set", line, value, o = "ok")
  /\ lineLevel' = IF o \in {"ok", "garbled"} THEN [lineLevel EXCEPT ![line] = value]
                  ELSE lineLevel
  /\ faults' = IF o = "ok" THEN faults ELSE faults - 1

\* line.Value()
Value(p, line, o) ==
  /\ SysCall(p, "get", line, lineLevel[line], o = "ok")
  /\ faults' = IF o = "ok" THEN faults ELSE faults - 1
  /\ UNCHANGED lineLevel

\* time.Sleep(d), d in microseconds
Sleep(p, micros) ==
  /\ SysCall(p, "sleep", "clock", micros, TRUE)
  /\ UNCHANGED <<lineLevel, faults>>

ReturnWithoutSysCall(p, r) ==
  /\ Return(p, r, 0)
  /\ UNCHANGED <<sys, lineLevel, faults>>

\* what a GPIO accessor leaves alone
GpioFrame == <<regs, regs0, bus, lineOwner, ctl, cur, loc, script>>

\* GPIOController.Reset
GpioResetWithoutSettle(p) ==
  IF ~ctl[p].resetLine THEN ReturnWithoutSysCall(p, "InvalidState")
  ELSE CASE G(p) = 0 ->
              \E o \in Outcomes :
                /\ SetValue(p, "reset", 1, o)
                /\ IF o # "ok" THEN Return(p, "GPIOFailure", 0) ELSE UNCHANGED <<hist, pc>>
         [] G(p) = 1 -> Sleep(p, ResetPulseMicros) /\ UNCHANGED <<hist, pc>>
         [] OTHER ->
              \E o \in Outcomes :
                /\ SetValue(p, "reset", 0, o)
                /\ Return(p, IF o # "ok" THEN "GPIOFailure" ELSE "ok", 0)

GpioResetSteps(p) ==
  IF ~ctl[p].resetLine THEN ReturnWithoutSysCall(p, "InvalidState")
  ELSE CASE G(p) = 0 ->
              \E o \in Outcomes :
                /\ SetValue(p, "reset", 1, o)
                /\ IF o # "ok" THEN Return(p, "GPIOFailure", 0) ELSE UNCHANGED <<hist, pc>>
         [] G(p) = 1 -> Sleep(p, ResetPulseMicros) /\ UNCHANGED <<hist, pc>>
         [] G(p) = 2 ->
              \E o \in Outcomes :
                /\ SetValue(p, "reset", 0, o)
                /\ IF o # "ok" THEN Return(p, "GPIOFailure", 0) ELSE UNCHANGED <<hist, pc>>
         [] OTHER -> Sleep(p, ResetSettleMicros) /\ Return(p, "ok", 0)

\* GPIOController.SetResetPin(high), SetTxRxPin(tx)
SetPinWithoutCheck(p, line, field, value) ==
  \E o \in Outcomes :
    /\ SetValue(p, line, value, o)
    /\ Return(p, IF o = "ok" THEN "ok" ELSE "GPIOFailure", 0)

SetPinSteps(p, line, field, value) ==
  IF ~ctl[p][field] THEN ReturnWithoutSysCall(p, "InvalidState")
  ELSE \E o \in Outcomes :
         /\ SetValue(p, line, value, o)
         /\ Return(p, IF o = "ok" THEN "ok" ELSE "GPIOFailure", 0)

\* GPIOController.GetResetPin, GetTxRxPin: return value == 1
GetPinSteps(p, line, field) ==
  IF ~ctl[p][field] THEN ReturnWithoutSysCall(p, "InvalidState")
  ELSE \E o \in Outcomes :
         /\ Value(p, line, o)
         /\ IF o = "ok" THEN Return(p, "ok", IF lineLevel[line] = 1 THEN 1 ELSE 0)
            ELSE Return(p, "GPIOFailure", 0)

GpioReset(p) == InMethod(p, "GPIO.Reset") /\ GpioResetSteps(p) /\ UNCHANGED GpioFrame

GpioSetResetPin(p) ==
  /\ InMethod(p, "GPIO.SetResetPin")
  /\ SetPinSteps(p, "reset", "resetLine", Call(p).arg)
  /\ UNCHANGED GpioFrame

GpioGetResetPin(p) ==
  /\ InMethod(p, "GPIO.GetResetPin")
  /\ GetPinSteps(p, "reset", "resetLine")
  /\ UNCHANGED GpioFrame

GpioSetTxRxPin(p) ==
  /\ InMethod(p, "GPIO.SetTxRxPin")
  /\ SetPinSteps(p, "txrx", "txRxLine", Call(p).arg)
  /\ UNCHANGED GpioFrame

GpioGetTxRxPin(p) ==
  /\ InMethod(p, "GPIO.GetTxRxPin")
  /\ GetPinSteps(p, "txrx", "txRxLine")
  /\ UNCHANGED GpioFrame

(***************************************************************************)
(* Close as a method of a scripted caller, each release one step that may  *)
(* fail.  A failed release reports an error with the resource released     *)
(* ("garbled") or still held ("lost"); the pointer is set to nil either    *)
(* way.  The failures of a Close are the failed "close" entries of sys.    *)
(***************************************************************************)
\* the next release of GPIOController.Close on controller c: the first non-nil of
\* txRxLine, resetLine, chip
NextGpioCloseChipFirst(c) ==
  IF c.chip THEN "chip" ELSE IF c.resetLine THEN "reset"
  ELSE IF c.txRxLine THEN "txrx" ELSE "none"

NextGpioClose(c) ==
  IF c.txRxLine THEN "txrx" ELSE IF c.resetLine THEN "reset"
  ELSE IF c.chip THEN "chip" ELSE "none"

CloseField(what) ==
  CASE what = "txrx" -> "txRxLine" [] what = "reset" -> "resetLine" [] OTHER -> "chip"

\* releases the running call of p has attempted, and those that failed
CloseAttempts(p, log) ==
  {log[i].on : i \in {j \in DOMAIN log : log[j].call = cur[p] /\ log[j].op = "close"}}

CloseFailures(p, log) ==
  {log[i].on : i \in {j \in DOMAIN log :
                        log[j].call = cur[p] /\ log[j].op = "close" /\ ~log[j].ok}}

\* the error a Close returns, as the sum of the codes of what failed to close
ErrorCode(what) ==
  CASE what = "spi" -> 1 [] what = "txrx" -> 2 [] what = "reset" -> 4 [] OTHER -> 8

RECURSIVE ErrorSum(_)
ErrorSum(S) ==
  IF S = {} THEN 0 ELSE LET x == CHOOSE x \in S : TRUE IN ErrorCode(x) + ErrorSum(S \ {x})

\* line.Close() or chip.Close() of GPIOController.Close, and g.<field> = nil
GpioRelease(p, what, o) ==
  /\ SysCall(p, "close", what, 0, o = "ok")
  /\ lineOwner' = IF what \in {"txrx", "reset"} /\ lineOwner[what] = p /\ o # "lost"
                  THEN [lineOwner EXCEPT ![what] = 0] ELSE lineOwner
  /\ faults' = IF o = "ok" THEN faults ELSE faults - 1

\* GPIOController.Close
GpioCloseSteps(p) ==
  LET what == NextGpioClose(ctl[p])
  IN  IF what = "none"
      THEN /\ Return(p, "ok", 0)
           /\ UNCHANGED <<sys, lineOwner, faults, ctl>>
      ELSE \E o \in Outcomes :
             /\ GpioRelease(p, what, o)
             /\ ctl' = [ctl EXCEPT ![p][CloseField(what)] = FALSE]
             /\ IF NextGpioClose(ctl'[p]) # "none" THEN UNCHANGED <<hist, pc>>
                ELSE LET errs == CloseFailures(p, sys')
                     IN  Return(p, IF errs = {} THEN "ok" ELSE "CloseError", ErrorSum(errs))

CloseFrame == <<regs, regs0, bus, lineLevel, cur, loc, script>>

GpioClose(p) == InMethod(p, "GPIO.Close") /\ GpioCloseSteps(p) /\ UNCHANGED CloseFrame

\* s.port.Close(): closing a port that is already closed succeeds or fails, as the
\* driver has it
PortCloseOutcomes(c) == IF c.spi = "closed" THEN {"ok", "lost"} ELSE Outcomes

\* what SX1255Controller.Close does next on controller c: s.spi.Close() first, then
\* the releases of s.gpio.Close()
NextClose(c, spiDone) ==
  IF c.spi # "nil" /\ ~spiDone THEN "spi"
  ELSE IF c.gpio THEN NextGpioClose(c) ELSE "none"

\* SX1255Controller.Close; s.initialized = false when nothing is left to close
CloseStopsAtFirstError(p) ==
  LET c == ctl[p]
      what == NextClose(c, "spi" \in CloseAttempts(p, sys))
  IN  IF what = "none"
      THEN /\ ctl' = [ctl EXCEPT ![p].initialized = FALSE]
           /\ Return(p, "ok", 0)
           /\ UNCHANGED <<sys, lineOwner, faults>>
      ELSE \E o \in (IF what = "spi" THEN PortCloseOutcomes(c) ELSE Outcomes) :
             LET c2 == IF what = "spi" THEN [c EXCEPT !.spi = "closed"]
                       ELSE [c EXCEPT ![CloseField(what)] = FALSE]
                 done == NextClose(c2, TRUE) = "none" \/ o # "ok"
                 errs == CloseFailures(p, sys')
             IN  /\ IF what = "spi"
                    THEN /\ SysCall(p, "close", "spi", 0, o = "ok")
                         /\ faults' = IF o = "ok" \/ c.spi = "closed" THEN faults
                                      ELSE faults - 1
                         /\ UNCHANGED lineOwner
                    ELSE GpioRelease(p, what, o)
                 /\ ctl' = [ctl EXCEPT ![p] = IF done THEN [c2 EXCEPT !.initialized = FALSE]
                                              ELSE c2]
                 /\ IF ~done THEN UNCHANGED <<hist, pc>>
                    ELSE Return(p, IF errs = {} THEN "ok" ELSE "CloseError", ErrorSum(errs))

CloseSteps(p) ==
  LET c == ctl[p]
      what == NextClose(c, "spi" \in CloseAttempts(p, sys))
  IN  IF what = "none"
      THEN /\ ctl' = [ctl EXCEPT ![p].initialized = FALSE]
           /\ Return(p, "ok", 0)
           /\ UNCHANGED <<sys, lineOwner, faults>>
      ELSE \E o \in (IF what = "spi" THEN PortCloseOutcomes(c) ELSE Outcomes) :
             LET c2 == IF what = "spi" THEN [c EXCEPT !.spi = "closed"]
                       ELSE [c EXCEPT ![CloseField(what)] = FALSE]
                 done == NextClose(c2, TRUE) = "none"
                 errs == CloseFailures(p, sys')
             IN  /\ IF what = "spi"
                    THEN /\ SysCall(p, "close", "spi", 0, o = "ok")
                         /\ faults' = IF o = "ok" \/ c.spi = "closed" THEN faults
                                      ELSE faults - 1
                         /\ UNCHANGED lineOwner
                    ELSE GpioRelease(p, what, o)
                 /\ ctl' = [ctl EXCEPT ![p] = IF done THEN [c2 EXCEPT !.initialized = FALSE]
                                              ELSE c2]
                 /\ IF ~done THEN UNCHANGED <<hist, pc>>
                    ELSE Return(p, IF errs = {} THEN "ok" ELSE "CloseError", ErrorSum(errs))

Close(p) == InMethod(p, "Close") /\ CloseSteps(p) /\ UNCHANGED CloseFrame

(***************************************************************************)
(* SX1255Controller: the remaining methods.                                *)
(***************************************************************************)
\* the value a successful read of addr returns: rx[1]
ReadValue(addr) == ChipResponse(regs, ReadFrame(addr))

\* SX1255Controller.Reset: s.gpio.Reset()
ResetWithoutCheck(p) == InMethod(p, "Reset") /\ GpioResetSteps(p) /\ UNCHANGED GpioFrame

Reset(p) ==
  /\ InMethod(p, "Reset")
  /\ IF ~ctl[p].initialized THEN ReturnWithoutSysCall(p, "NotInitialized")
     ELSE GpioResetSteps(p)
  /\ UNCHANGED GpioFrame

GetVersion(p) ==
  /\ InMethod(p, "GetVersion")
  /\ IF ~ctl[p].initialized THEN ReturnWithoutTransfer(p, "NotInitialized")
     ELSE ReadRegisterStep(p, RegVersion, TRUE, ReadValue(RegVersion))
  /\ UNCHANGED MethodFrame

\* "V<major><letter>": recorded as 100 * major + minor, minor 0 standing for no letter
VersionString(version) == 100 * BitAnd(Shr(version, 4), 15) + BitAnd(version, 15)

GetVersionString(p) ==
  /\ InMethod(p, "GetVersionString")
  /\ IF ~ctl[p].initialized THEN ReturnWithoutTransfer(p, "NotInitialized")
     ELSE ReadRegisterStep(p, RegVersion, TRUE, VersionString(ReadValue(RegVersion)))
  /\ UNCHANGED MethodFrame

\* the two arguments of WriteRegister(addr, value) as one number
AddrValue(addr, value) == 256 * addr + value

ReadRegister(p) ==
  /\ InMethod(p, "ReadRegister")
  /\ IF ~ctl[p].initialized THEN ReturnWithoutTransfer(p, "NotInitialized")
     ELSE ReadRegisterStep(p, Call(p).arg, TRUE, ReadValue(Call(p).arg))
  /\ UNCHANGED MethodFrame

WriteRegister(p) ==
  /\ InMethod(p, "WriteRegister")
  /\ IF ~ctl[p].initialized THEN ReturnWithoutTransfer(p, "NotInitialized")
     ELSE WriteRegisterStep(p, Call(p).arg \div 256, Call(p).arg % 256, TRUE)
  /\ UNCHANGED MethodFrame

\* for addr := uint8(0x00); addr <= RegDigBridge; addr++ { s.spi.ReadRegister(addr) }
ReadAllRegisters(p) ==
  /\ InMethod(p, "ReadAllRegisters")
  /\ IF ~ctl[p].initialized THEN ReturnWithoutTransfer(p, "NotInitialized")
     ELSE ReadRegisterStep(p, K(p), K(p) = RegDigBridge, 0)
  /\ UNCHANGED MethodFrame

SetMode(p) ==
  /\ InMethod(p, "SetMode")
  /\ IF ~ctl[p].initialized THEN ReturnWithoutTransfer(p, "NotInitialized")
     ELSE WriteRegisterStep(p, RegMode, Call(p).arg, TRUE)
  /\ UNCHANGED MethodFrame

GetMode(p) ==
  /\ InMethod(p, "GetMode")
  /\ IF ~ctl[p].initialized THEN ReturnWithoutTransfer(p, "NotInitialized")
     ELSE ReadRegisterStep(p, RegMode, TRUE, ReadValue(RegMode))
  /\ UNCHANGED MethodFrame

\* txLocked, rxLocked recorded as txLocked + 2 * rxLocked
GetPLLStatus(p) ==
  /\ InMethod(p, "GetPLLStatus")
  /\ IF ~ctl[p].initialized THEN ReturnWithoutTransfer(p, "NotInitialized")
     ELSE ReadRegisterStep(p, RegStat, TRUE, BitAnd(ReadValue(RegStat), 3))
  /\ UNCHANGED MethodFrame

\* the four status bits eol, xosc_ready, pll_lock_rx, pll_lock_tx
GetStatus(p) ==
  /\ InMethod(p, "GetStatus")
  /\ IF ~ctl[p].initialized THEN ReturnWithoutTransfer(p, "NotInitialized")
     ELSE ReadRegisterStep(p, RegStat, TRUE, BitAnd(ReadValue(RegStat), 15))
  /\ UNCHANGED MethodFrame

SetTxRxSwitch(p) ==
  /\ InMethod(p, "SetTxRxSwitch")
  /\ IF ~ctl[p].initialized THEN ReturnWithoutSysCall(p, "NotInitialized")
     ELSE SetPinSteps(p, "txrx", "txRxLine", Call(p).arg)
  /\ UNCHANGED GpioFrame

GetTxRxSwitch(p) ==
  /\ InMethod(p, "GetTxRxSwitch")
  /\ IF ~ctl[p].initialized THEN ReturnWithoutSysCall(p, "NotInitialized")
     ELSE GetPinSteps(p, "txrx", "txRxLine")
  /\ UNCHANGED GpioFrame

\* Initialize: s.GetVersion(), the value discarded
InitializeWithModeWrite(p) ==
  /\ InMethod(p, "Initialize")
  /\ IF ~ctl[p].initialized THEN ReturnWithoutTransfer(p, "NotInitialized")
     ELSE IF K(p) = 0 THEN ReadRegisterStep(p, RegVersion, FALSE, 0)
     ELSE WriteRegisterStep(p, RegMode, DefaultRegisterValues[RegMode], TRUE)
  /\ UNCHANGED MethodFrame

Initialize(p) ==
  /\ InMethod(p, "Initialize")
  /\ IF ~ctl[p].initialized THEN ReturnWithoutTransfer(p, "NotInitialized")
     ELSE ReadRegisterStep(p, RegVersion, TRUE, 0)
  /\ UNCHANGED MethodFrame

\* the keys of DefaultRegisterValues, ascending
RECURSIVE AscendingKeys(_)
AscendingKeys(S) ==
  IF S = {} THEN <<>>
  ELSE LET m == CHOOSE a \in S : \A b \in S : a <= b
       IN  <<m>> \o AscendingKeys(S \ {m})

DefaultKeys == AscendingKeys(DOMAIN DefaultRegisterValues)

\* for addr, value := range DefaultRegisterValues: the iteration order of a Go map is
\* not specified and is drawn anew by the runtime at each range statement.  The call
\* carries the draw as its argument: a start and a stride through the keys, the
\* stride coprime to their number, so that every key is visited once.
Strides == <<1, 2, 4, 7, 8, 11, 13, 14>>

TraversalWithRepeat(seed) ==
  LET n == Len(DefaultKeys)
      start == seed % n
      stride == Strides[((seed \div n) % Len(Strides)) + 1]
  IN  [k \in 1..n |-> DefaultKeys[((start + (IF k = n THEN 0 ELSE k - 1) * stride) % n) + 1]]

Traversal(seed) ==
  LET n == Len(DefaultKeys)
      start == seed % n
      stride == Strides[((seed \div n) % Len(Strides)) + 1]
  IN  [k \in 1..n |-> DefaultKeys[((start + (k - 1) * stride) % n) + 1]]

\* InitializeWithDefaults: Initialize, then for addr, value := range
\* DefaultRegisterValues { s.spi.WriteRegister(addr, value) }
InitializeWithDefaults(p) ==
  /\ InMethod(p, "InitializeWithDefaults")
  /\ IF ~ctl[p].initialized THEN ReturnWithoutTransfer(p, "NotInitialized")
     ELSE IF K(p) = 0 THEN ReadRegisterStep(p, RegVersion, FALSE, 0)
     ELSE LET addr == Traversal(Call(p).arg)[K(p)]
          IN  WriteRegisterStep(p, addr, DefaultRegisterValues[addr],
                                K(p) = Len(DefaultKeys))
  /\ UNCHANGED MethodFrame

(***************************************************************************)
(* SpecClose: a caller closes a ready controller and then calls one more   *)
(* method on it, or calls one method on a controller that never became     *)
(* ready (the zero SX1255Controller).                                      *)
(***************************************************************************)
AllOps ==
  { Op("Reset", 0), Op("GetVersion", 0), Op("GetVersionString", 0),
    Op("ReadRegister", RegVersion), Op("WriteRegister", AddrValue(RegMode, 15)),
    Op("ReadAllRegisters", 0), Op("SetMode", 3), Op("GetMode", 0),
    Op("SetRxFrequency", 434000000), Op("GetRxFrequency", 0),
    Op("SetTxFrequency", 446000000), Op("GetTxFrequency", 0),
    Op("GetStatus", 0), Op("GetPLLStatus", 0),
    Op("SetLNAGain", 40), Op("SetPGAGain", 10), Op("SetDACGain", 0),
    Op("SetMixerGain", -40),
    Op("EnableRx", 1), Op("EnableTx", 1), Op("EnablePA", 1),
    Op("SetTxRxSwitch", 1), Op("GetTxRxSwitch", 0),
    Op("Initialize", 0), Op("InitializeWithDefaults", 0) }

\* caller 1 holds controller c, which holds the lines or not
InitWith(c, holds, r, f, sc) ==
  /\ regs = r /\ regs0 = r
  /\ lineOwner = [l \in {"reset", "txrx"} |-> IF holds THEN 1 ELSE 0]
  /\ lineLevel = [l \in {"reset", "txrx"} |-> 0]
  /\ pc = [p \in Procs |-> IF p = 1 THEN "ready" ELSE "idle"]
  /\ ctl = [p \in Procs |-> IF p = 1 THEN c ELSE NilController]
  /\ cur = [p \in Procs |-> 0]
  /\ loc = [p \in Procs |-> <<>>]
  /\ hist = <<>> /\ bus = <<>>
  /\ faults = f /\ script = sc /\ sys = <<>>

InitClose ==
  \E f \in 0..MaxCloseFaults : \E o \in AllOps \cup {Op("Close", 0)} :
    \/ InitWith(ReadyController, TRUE, BaseRegs, f, <<Op("Close", 0), o>>)
    \/ InitWith(NilController, FALSE, BaseRegs, f, <<o>>)

ControllerMethods(p) ==
  \/ Reset(p) \/ GetVersion(p) \/ GetVersionString(p)
  \/ ReadRegister(p) \/ WriteRegister(p) \/ ReadAllRegisters(p)
  \/ SetMode(p) \/ GetMode(p)
  \/ SetRxFrequency(p) \/ GetRxFrequency(p) \/ SetTxFrequency(p) \/ GetTxFrequency(p)
  \/ GetStatus(p) \/ GetPLLStatus(p)
  \/ SetLNAGain(p) \/ SetPGAGain(p) \/ SetDACGain(p) \/ SetMixerGain(p)
  \/ EnableRx(p) \/ EnableTx(p) \/ EnablePA(p)
  \/ SetTxRxSwitch(p) \/ GetTxRxSwitch(p)
  \/ Initialize(p) \/ InitializeWithDefaults(p)

NextClosed == \E p \in Procs : Scripted(p) \/ Close(p) \/ ControllerMethods(p)

SpecClose == InitClose /\ [][NextClosed]_vars

\* system calls of call c other than SPI transfers
SysCallsOf(c) == {i \in DOMAIN sys : sys[i].call = c}

\* the controller of caller 1 was never constructed
NeverReady == ctl[1].spi = "nil"

\* call c was made on a controller that was closed or never ready
OnUnreadyController(c) ==
  /\ c \in DOMAIN hist /\ hist[c].name # "Close"
  /\ NeverReady \/ (c > 1 /\ hist[1].name = "Close")

\* C14: on a controller on which Close has been called, and on one that never became
\* ready, every operation other than Close returns the not-initialized error and
\* performs no SPI transfer and no GPIO line access: registers and line levels stay
\* as they were.
C14_UnreadyControllerRefusesEveryOperation ==
  \A c \in DOMAIN hist :
    OnUnreadyController(c) =>
      /\ TransfersOf(c) = {} /\ SysCallsOf(c) = {}
      /\ regs = regs0 /\ lineLevel = [l \in {"reset", "txrx"} |-> 0]
      /\ Returned(c) => hist[c].res = "NotInitialized"

\* C14 witness: after a Close in which the SPI close failed, Reset has returned the
\* not-initialized error.
C14_Witness ==
  /\ Len(hist) = 2 /\ hist[1].name = "Close" /\ hist[1].res = "CloseError"
  /\ hist[2].name = "Reset" /\ hist[2].res = "NotInitialized"
  /\ ~ctl[1].initialized

\* whether the release of what failed in call c
FailedIn(c, what) ==
  \E i \in SysCallsOf(c) : sys[i].op = "close" /\ sys[i].on = what /\ ~sys[i].ok

\* the releases call c attempted, in order
RECURSIVE OnInOrder(_)
OnInOrder(T) ==
  IF T = {} THEN <<>>
  ELSE LET m == CHOOSE i \in T : \A j \in T : i <= j
       IN  <<sys[m].on>> \o OnInOrder(T \ {m})

ReleasesOf(c) == OnInOrder({i \in SysCallsOf(c) : sys[i].op = "close"})

\* C16: SX1255Controller.Close attempts to close the SPI device and then the GPIO
\* controller in every case, also when the SPI close failed; it returns an error
\* exactly when at least one close failed, the error reports every failure, and the
\* controller is not ready after Close whatever the outcome.
C16_CloseAttemptsEverythingAndAggregates ==
  (Returned(1) /\ hist[1].name = "Close" /\ ~NeverReady) =>
    /\ ReleasesOf(1) = <<"spi", "txrx", "reset", "chip">>
    /\ hist[1].res \in {"ok", "CloseError"}
    /\ hist[1].res = "CloseError" <=>
         \E what \in {"spi", "txrx", "reset", "chip"} : FailedIn(1, what)
    /\ hist[1].val = (IF FailedIn(1, "spi") THEN 1 ELSE 0)
                      + (IF FailedIn(1, "txrx") THEN 2 ELSE 0)
                      + (IF FailedIn(1, "reset") THEN 4 ELSE 0)
                      + (IF FailedIn(1, "chip") THEN 8 ELSE 0)
    /\ (Len(hist) = 1 \/ hist[2].name # "Close" \/ Returned(2)) => ~ctl[1].initialized
    /\ ctl[1].spi = "closed" /\ ~ctl[1].txRxLine /\ ~ctl[1].resetLine /\ ~ctl[1].chip

\* C16 witness: a Close in which the SPI close and the release of the reset line
\* failed has attempted all four closes and returned an error naming both.
C16_Witness ==
  /\ Len(hist) = 1 /\ hist[1].name = "Close" /\ hist[1].res = "CloseError"
  /\ hist[1].val = 5 /\ Len(sys) = 4 /\ ~ctl[1].initialized

(***************************************************************************)
(* SpecConstruct: concurrent handlers whose constructions may fail at any  *)
(* acquisition: opening or configuring the SPI port, opening the GPIO      *)
(* chip, requesting either line.                                           *)
(***************************************************************************)
InitConstruct == \E f \in 0..MaxFaults : InitIdle(BaseRegs, f, <<>>)

NextConstruct ==
  \/ \E line \in {"reset", "txrx"} : OtherConsumer(line)
  \/ \E p \in Procs :
    \/ Handler(p) \/ AbortConnect(p)
    \/ Invoke(p, Op("GetVersion", 0))
    \/ GetVersion(p)

SpecConstruct == InitConstruct /\ [][NextConstruct]_vars

\* what a controller holds, in the state after a step
HoldsNothingNext(p) ==
  /\ ctl'[p].spi # "open" /\ ~ctl'[p].chip
  /\ ~ctl'[p].resetLine /\ ~ctl'[p].txRxLine
  /\ \A l \in {"reset", "txrx"} : lineOwner'[l] # p

HoldsEverythingNext(p) ==
  /\ ctl'[p].spi = "open" /\ ctl'[p].chip /\ ctl'[p].gpio
  /\ ctl'[p].resetLine /\ ctl'[p].txRxLine
  /\ \A l \in {"reset", "txrx"} : lineOwner'[l] = p

ConstructionSteps == {"NewSPIDevice", "AbortConnect", "NewChip", "RequestReset",
                      "RequestTxRx", "AbortReset", "AbortChip", "AbortSPI"}

\* C15: construction is all-or-nothing: a controller becomes ready only holding the
\* open SPI port, the GPIO chip and both lines, and when any acquisition fails the
\* construction returns holding none of them
C15_ConstructionAllOrNothing ==
  [][\A p \in Procs :
       pc[p] \in ConstructionSteps =>
         /\ pc'[p] = "ready" => HoldsEverythingNext(p) /\ ctl'[p].initialized
         /\ pc'[p] = "idle" => HoldsNothingNext(p) /\ ~ctl'[p].initialized]_vars

\* a construction has failed for a reason other than a held line, and has returned
C15_Witness ==
  \E p \in Procs :
    /\ pc[p] = "idle" /\ ctl[p].spi = "closed" /\ hist = <<>>
    /\ faults < MaxFaults
    /\ \A q \in Procs \ {p} : pc[q] = "idle" /\ ctl[q] = NilController

(***************************************************************************)
(* SpecGpio: a scripted caller of a GPIOController, constructed or zero,   *)
(* whose line accesses and releases may fail.                              *)
(***************************************************************************)
GpioAccessors ==
  { Op("GPIO.Reset", 0), Op("GPIO.SetResetPin", 0), Op("GPIO.SetResetPin", 1),
    Op("GPIO.GetResetPin", 0), Op("GPIO.SetTxRxPin", 0), Op("GPIO.SetTxRxPin", 1),
    Op("GPIO.GetTxRxPin", 0) }

GpioOps == GpioAccessors \cup {Op("GPIO.Close", 0)}

InitGpio ==
  \E f \in 0..MaxCloseFaults : \E sc \in SeqsUpTo(GpioOps, ScriptLen) :
    \/ InitWith(ReadyController, TRUE, BaseRegs, f, sc)
    \/ InitWith(NilController, FALSE, BaseRegs, f, sc)

NextGpio ==
  \E p \in Procs :
    \/ Scripted(p)
    \/ GpioReset(p) \/ GpioSetResetPin(p) \/ GpioGetResetPin(p)
    \/ GpioSetTxRxPin(p) \/ GpioGetTxRxPin(p)
    \/ GpioClose(p)

SpecGpio == InitGpio /\ [][NextGpio]_vars

\* the system calls of call c, in order, as <<operation, object, value>>
RECURSIVE Ascending(_)
Ascending(T) ==
  IF T = {} THEN <<>>
  ELSE LET m == CHOOSE i \in T : \A j \in T : i <= j
       IN  <<m>> \o Ascending(T \ {m})

SysSeqOf(c) ==
  LET ix == Ascending(SysCallsOf(c))
  IN  [k \in DOMAIN ix |-> <<sys[ix[k]].op, sys[ix[k]].on, sys[ix[k]].v>>]

IsPrefix(s, t) == Len(s) <= Len(t) /\ \A k \in DOMAIN s : s[k] = t[k]

\* call c was made on a GPIOController that was zero or already closed
LinesNotHeld(c) == NeverReady \/ \E d \in CallsOf("GPIO.Close") : d < c

\* the level of the TX/RX line as the accesses made to it leave it
TxRxSets == {i \in DOMAIN sys : sys[i].op = "set" /\ sys[i].on = "txrx"}

\* C17: the first GPIOController.Close on a constructed controller releases the TX/RX
\* line, the reset line and the chip, in this order, each attempted whether or not an
\* earlier release failed; it returns an error exactly when a release failed and the
\* error names every failed release; a later Close attempts no release and succeeds.
C17_GpioCloseReleasesInOrder ==
  \A c \in CallsOf("GPIO.Close") :
    Returned(c) =>
      IF LinesNotHeld(c)
      THEN SysCallsOf(c) = {} /\ hist[c].res = "ok"
      ELSE /\ SysSeqOf(c) = <<(<<"close", "txrx", 0>>), (<<"close", "reset", 0>>),
                              (<<"close", "chip", 0>>)>>
           /\ hist[c].res = "CloseError" <=>
                \E what \in {"txrx", "reset", "chip"} : FailedIn(c, what)
           /\ hist[c].res \in {"ok", "CloseError"}
           /\ hist[c].val = (IF FailedIn(c, "txrx") THEN 2 ELSE 0)
                             + (IF FailedIn(c, "reset") THEN 4 ELSE 0)
                             + (IF FailedIn(c, "chip") THEN 8 ELSE 0)
           /\ ~ctl[1].txRxLine /\ ~ctl[1].resetLine /\ ~ctl[1].chip

\* C17 witness: a first Close in which the releases of the TX/RX line and of the chip
\* failed has returned the error naming both, and a second Close has returned.
C17_Witness ==
  /\ Len(hist) = 2 /\ ~NeverReady
  /\ hist[1].name = "GPIO.Close" /\ hist[2].name = "GPIO.Close"
  /\ hist[1].res = "CloseError" /\ hist[1].val = 10
  /\ Returned(2)

\* the system calls of a complete reset pulse
ResetPulse ==
  <<(<<"set", "reset", 1>>), (<<"sleep", "clock", ResetPulseMicros>>),
    (<<"set", "reset", 0>>), (<<"sleep", "clock", ResetSettleMicros>>)>>

\* C18: GPIOController.Reset drives the reset line high, waits 100 microseconds,
\* drives it low and waits 5 milliseconds, in this order; when it succeeds the line is
\* low and both waits have been made; it never accesses the TX/RX line, whose level
\* is the one its own setter left.
C18_ResetPulseTiming ==
  /\ \A c \in CallsOf("GPIO.Reset") :
       /\ IsPrefix(SysSeqOf(c), ResetPulse)
       /\ Succeeded(c) =>
            /\ SysSeqOf(c) = ResetPulse
            /\ \A i \in SysCallsOf(c) : sys[i].ok
            /\ c = Len(hist) => lineLevel["reset"] = 0
  /\ \A i \in TxRxSets : hist[sys[i].call].name = "GPIO.SetTxRxPin"
  /\ (\A i \in TxRxSets : sys[i].ok) =>
       lineLevel["txrx"] = IF TxRxSets = {} THEN 0
                           ELSE sys[CHOOSE i \in TxRxSets : \A j \in TxRxSets : j <= i].v

\* C18 witness: with the TX/RX line set high before, a Reset has succeeded.
C18_Witness ==
  /\ Len(hist) = 2
  /\ hist[1].name = "GPIO.SetTxRxPin" /\ hist[1].arg = 1 /\ Succeeded(1)
  /\ hist[2].name = "GPIO.Reset" /\ Succeeded(2)
  /\ lineLevel["txrx"] = 1

\* C19: Reset, SetResetPin, GetResetPin, SetTxRxPin and GetTxRxPin called on a
\* GPIOController whose lines are not held (never constructed, or closed) return the
\* invalid-state error and access no line.
C19_AccessorsRefuseWithoutLines ==
  \A c \in DOMAIN hist :
    (hist[c].name # "GPIO.Close" /\ LinesNotHeld(c)) =>
      /\ SysCallsOf(c) = {}
      /\ Returned(c) => hist[c].res = "InvalidState" /\ hist[c].val = 0

\* C19 witness: after a Close, SetTxRxPin(true) has returned the invalid-state error
\* and the TX/RX line is still low.
C19_Witness ==
  /\ Len(hist) = 2 /\ ~NeverReady
  /\ hist[1].name = "GPIO.Close"
  /\ hist[2].name = "GPIO.SetTxRxPin" /\ hist[2].arg = 1
  /\ hist[2].res = "InvalidState" /\ lineLevel["txrx"] = 0

(***************************************************************************)
(* SpecRegister: the plugin's register read and write handlers on a ready  *)
(* controller.  The handlers accept every address in 0..0xFF and pass it   *)
(* as a uint8; a burst write takes its addresses as uint8.                 *)
(***************************************************************************)
HandlerAddrs == 0..255

RegisterOps ==
  {Op("ReadRegister", a) : a \in HandlerAddrs}
    \cup {Op("WriteRegister", AddrValue(a, 90)) : a \in HandlerAddrs}

InitRegister ==
  \E f \in 0..MaxFaults : \E o \in RegisterOps : InitReady(BaseRegs, f, <<o>>)

NextRegister == \E p \in Procs : Scripted(p) \/ ReadRegister(p) \/ WriteRegister(p)

SpecRegister == InitRegister /\ [][NextRegister]_vars

\* the register address call c was given, and the one a frame carries on the bus
AddrOf(c) == IF hist[c].name = "WriteRegister" THEN hist[c].arg \div 256 ELSE hist[c].arg
FrameAddr(tx) == tx[1] % 128

\* C20: every register transfer issued through ReadRegister and WriteRegister targets
\* an address in 0x00..0x13, and a call with an address outside that range returns
\* the invalid-argument error without a transfer.
C20_AsStated ==
  /\ \A i \in DOMAIN bus : FrameAddr(bus[i].tx) \in Addrs
  /\ \A c \in DOMAIN hist :
       AddrOf(c) \notin Addrs =>
         /\ TransfersOf(c) = {}
         /\ Returned(c) => hist[c].res = "InvalidArgument"

\* what the code does with an address above 0x13: ReadRegister(0x20) transfers the
\* frame <<0x20, 0>> and succeeds
C20_OutOfRangeAddressTransferred ==
  /\ Len(hist) = 1 /\ hist[1].name = "ReadRegister" /\ hist[1].arg = 32
  /\ Succeeded(1)
  /\ Len(bus) = 1 /\ bus[1].tx = <<32, 0>>

(***************************************************************************)
(* SpecDefaults: InitializeWithDefaults on a ready controller, over the    *)
(* traversals of the table and two register files, with transfers that may *)
(* fail, followed or not by a frequency read.                              *)
(***************************************************************************)
TraversalSeeds == 120

\* a register file that differs from the default table in every register
InvertedRegs == [a \in Addrs |-> 255 - BaseRegs[a]]

InitDefaults ==
  \E seed \in 0..(TraversalSeeds - 1) : \E f \in 0..MaxFaults :
    \E r \in {BaseRegs, InvertedRegs} :
      \E sc \in {<<>>, <<Op("GetRxFrequency", 0)>>, <<Op("GetTxFrequency", 0)>>} :
        InitReady(r, f, <<Op("InitializeWithDefaults", seed)>> \o sc)

NextDefaults ==
  \E p \in Procs :
    Scripted(p) \/ InitializeWithDefaults(p) \/ GetRxFrequency(p) \/ GetTxFrequency(p)

SpecDefaults == InitDefaults /\ [][NextDefaults]_vars

\* the writes and the reads of call c on the bus
WritesOf(c) == {i \in TransfersOf(c) : bus[i].tx[1] >= 128}
ReadsOf(c) == {i \in TransfersOf(c) : bus[i].tx[1] < 128}
WrittenAddrs(c) == {bus[i].tx[1] - 128 : i \in WritesOf(c)}

\* a successful InitializeWithDefaults read VERSION once, first, and then wrote each
\* register of the table once with its table value and no other register, and the
\* register file is the former one overlaid with the table
DefaultsWritten(c) ==
  /\ ReadsOf(c) = {CHOOSE i \in TransfersOf(c) : \A j \in TransfersOf(c) : i <= j}
  /\ \A i \in ReadsOf(c) : bus[i].tx = <<RegVersion, 0>>
  /\ WrittenAddrs(c) = DOMAIN DefaultRegisterValues
  /\ Cardinality(WritesOf(c)) = Cardinality(WrittenAddrs(c))
  /\ \A i \in WritesOf(c) : bus[i].tx[2] = DefaultRegisterValues[bus[i].tx[1] - 128]
  /\ regs = [a \in Addrs |-> IF a \in DOMAIN DefaultRegisterValues
                             THEN DefaultRegisterValues[a] ELSE regs0[a]]

\* C21: as stated, with a table of 17 registers
C21_AsStated ==
  \A c \in CallsOf("InitializeWithDefaults") :
    Succeeded(c) => DefaultsWritten(c) /\ Cardinality(WrittenAddrs(c)) = 17

\* C21: InitializeWithDefaults, when every transfer succeeds, reads VERSION once and
\* then writes the 15 registers of the default table, each exactly once with its
\* table value, and no register outside the table; the final register values are
\* the same for every traversal order of the table.
C21_DefaultsWrittenOnceEach ==
  \A c \in CallsOf("InitializeWithDefaults") :
    Succeeded(c) => DefaultsWritten(c) /\ Cardinality(WrittenAddrs(c)) = 15

\* C21 witness: a traversal that does not start at the lowest address and does not run
\* in address order has succeeded on a register file that differed from the table.
C21_Witness ==
  /\ hist # <<>> /\ Succeeded(1) /\ hist[1].name = "InitializeWithDefaults"
  /\ regs0 = InvertedRegs
  /\ bus[2].tx[1] = 128 + RegRxfe1 /\ bus[3].tx[1] = 128 + RegTxfe1

\* call c is a frequency read that follows a successful InitializeWithDefaults
ReadsDefaults(c) ==
  /\ c = 2 /\ Succeeded(1) /\ Succeeded(2)
  /\ hist[1].name = "InitializeWithDefaults"
  /\ hist[2].name \in {"GetRxFrequency", "GetTxFrequency"}

\* C22: after a successful InitializeWithDefaults with FXOSC at its default of 32 MHz,
\* GetRxFrequency and GetTxFrequency return 434,000,000 Hz to within 31 Hz, a value
\* in the range the frequency setters accept.
C22_AsStated ==
  \A c \in DOMAIN hist :
    ReadsDefaults(c) =>
      /\ Abs(hist[c].val - 434000000) <= 31
      /\ hist[c].val >= FreqMin /\ hist[c].val <= FreqMax

\* what the code returns: 0xC0E38E * 32 MHz / 2^20 = 385,777,771 Hz, below FreqMin
C22_DefaultsReadBack ==
  \E c \in DOMAIN hist :
    ReadsDefaults(c) /\ hist[c].name = "GetRxFrequency" /\ hist[c].val = 385777771

(***************************************************************************)
(* SpecInit: concurrent handlers of the plugin's init operation: each      *)
(* constructs a controller, calls Initialize and closes the controller;    *)
(* acquisitions and transfers may fail.                                    *)
(***************************************************************************)
InitInit == \E f \in 0..MaxFaults : InitIdle(InvertedRegs, f, <<>>)

NextInit ==
  \/ \E line \in {"reset", "txrx"} : OtherConsumer(line)
  \/ \E p \in Procs :
    \/ Handler(p) \/ AbortConnect(p)
    \/ Invoke(p, Op("Initialize", 0))
    \/ Initialize(p)

SpecInit == InitInit /\ [][NextInit]_vars

\* C23: plain initialization never modifies the device: constructing and closing a
\* controller issues no SPI transfer, and Initialize issues exactly one transfer, a
\* read of VERSION, and no register write; the register file stays as it was.
C23_PlainInitializationReadsVersionOnly ==
  /\ regs = regs0
  /\ \A i \in DOMAIN bus :
       /\ bus[i].call \in CallsOf("Initialize")
       /\ bus[i].tx = <<RegVersion, 0>>
  /\ \A c \in CallsOf("Initialize") :
       /\ Cardinality(TransfersOf(c)) <= 1
       /\ Returned(c) => Cardinality(TransfersOf(c)) = 1
       /\ Succeeded(c) => \A i \in TransfersOf(c) : bus[i].ok

\* C23 witness: two handlers have each constructed a controller, initialized it and
\* closed it, on a register file that differs from the default table.
C23_Witness ==
  /\ Len(hist) = 2 /\ Succeeded(1) /\ Succeeded(2)
  /\ \A p \in Procs : pc[p] = "idle"
  /\ Len(bus) = 2 /\ regs = InvertedRegs

\* C24: InitializeWithDefaults aborts on the first register write that fails: it
\* returns an error, the failed write is its last transfer, and there is no rollback:
\* every register written before it holds its table value and every register of the
\* file it did not reach holds its previous value.
C24_DefaultsAbortOnFirstWriteFailure ==
  \A c \in CallsOf("InitializeWithDefaults") :
    \A i \in WritesOf(c) :
      ~bus[i].ok =>
        /\ \A j \in TransfersOf(c) : j <= i
        /\ \A j \in TransfersOf(c) : j < i => bus[j].ok
        /\ Returned(c) /\ hist[c].res = "TransportFailure"
        /\ \A a \in Addrs \ {bus[i].tx[1] - 128} :
             regs[a] = IF a \in WrittenAddrs(c) THEN DefaultRegisterValues[a] ELSE regs0[a]
        /\ LET a == bus[i].tx[1] - 128
           IN  regs[a] \in {regs0[a], DefaultRegisterValues[a]}

\* C24 witness: the seventh write of a traversal failed on a register file that
\* differed from the table: six registers hold table values, eight their former ones.
C24_Witness ==
  \E c \in CallsOf("InitializeWithDefaults") :
    /\ Returned(c) /\ hist[c].res = "TransportFailure"
    /\ Cardinality(WritesOf(c)) = 7 /\ regs0 = InvertedRegs
    /\ Cardinality({a \in DOMAIN DefaultRegisterValues : regs[a] = DefaultRegisterValues[a]}) = 6

(***************************************************************************)
(* SpecFaults: one controller method on a ready controller, with transfers *)
(* that may fail.                                                          *)
(***************************************************************************)
InitFaults ==
  \E f \in 0..MaxFaults : \E o \in AllOps : InitReady(InvertedRegs, f, <<o>>)

NextFaults == \E p \in Procs : Scripted(p) \/ ControllerMethods(p)

SpecFaults == InitFaults /\ [][NextFaults]_vars

\* C25: no retries: in every controller operation a transfer that fails is the
\* operation's last transfer, made once, and the operation returns the transport
\* error; a read-modify-write whose read fails writes nothing, and a frequency set
\* whose write fails leaves the later frequency bytes as they were.
C25_FailedTransferEndsTheOperation ==
  \A c \in DOMAIN hist :
    \A i \in TransfersOf(c) :
      ~bus[i].ok =>
        /\ \A j \in TransfersOf(c) : j <= i
        /\ \A j \in TransfersOf(c) : j < i => bus[j].ok /\ bus[j].tx # bus[i].tx
        /\ Returned(c) /\ hist[c].res = "TransportFailure"
        /\ (hist[c].name \in ReadModifyWriters /\ i \in ReadsOf(c)) =>
             WritesOf(c) = {} /\ regs = regs0
        /\ hist[c].name \in FrequencySetters =>
             \A a \in Addrs : a > bus[i].tx[1] - 128 => regs[a] = regs0[a]

\* C25 witness: the second write of SetRxFrequency failed and the third byte was not
\* written; elsewhere the read of a read-modify-write failed.
C25_Witness ==
  /\ Len(hist) = 1 /\ hist[1].name = "SetRxFrequency"
  /\ Len(bus) = 2 /\ ~bus[2].ok /\ hist[1].res = "TransportFailure"
  /\ regs[RegFrfhRx] # regs0[RegFrfhRx] /\ regs[RegFrflRx] = regs0[RegFrflRx]

(***************************************************************************)
(* SpecFraming: a register write followed by a read of the same address,   *)
(* over every value and over the register addresses and some outside them. *)
(***************************************************************************)
FramedAddrs == Addrs \cup {32, 127, 144, 255}

InitFraming ==
  \E f \in 0..MaxFaults : \E a \in FramedAddrs : \E v \in Byte :
    InitReady(BaseRegs, f, <<Op("WriteRegister", AddrValue(a, v)), Op("ReadRegister", a)>>)

NextFraming == \E p \in Procs : Scripted(p) \/ ReadRegister(p) \/ WriteRegister(p)

SpecFraming == InitFraming /\ [][NextFraming]_vars

\* C26: WriteRegister(addr, v) makes exactly one transfer, of the two bytes
\* [addr | 0x80, v]; ReadRegister(addr) makes exactly one transfer, of the two bytes
\* [addr & 0x7F, 0x00], and returns the second response byte; for addr in 0x00..0x13 a
\* write followed by a read of the same address returns the written value.
C26_SingleRegisterFraming ==
  \A c \in DOMAIN hist :
    LET a == AddrOf(c)
    IN  /\ Cardinality(TransfersOf(c)) <= 1
        /\ Returned(c) => Cardinality(TransfersOf(c)) = 1
        /\ \A i \in TransfersOf(c) :
             /\ Len(bus[i].tx) = 2
             /\ hist[c].name = "WriteRegister" =>
                  bus[i].tx = <<(IF a >= 128 THEN a ELSE a + 128), hist[c].arg % 256>>
             /\ hist[c].name = "ReadRegister" =>
                  /\ bus[i].tx = <<a % 128, 0>>
                  /\ Succeeded(c) => hist[c].val = bus[i].rx
        /\ (c = 2 /\ Succeeded(1) /\ Succeeded(2) /\ a \in Addrs) =>
             hist[2].val = hist[1].arg % 256

\* C26 witness: 0xA5 written to RXFE1 and read back.
C26_Witness ==
  /\ Len(hist) = 2 /\ Succeeded(1) /\ Succeeded(2)
  /\ hist[1].arg = AddrValue(RegRxfe1, 165) /\ hist[2].val = 165
  /\ bus[1].tx = <<140, 165>> /\ bus[2].tx = <<12, 0>> /\ bus[2].rx = 165

\* what handler p holds
HoldsNothing(p) ==
  /\ ctl[p].spi # "open" /\ ~ctl[p].chip /\ ~ctl[p].resetLine /\ ~ctl[p].txRxLine
  /\ ~ctl[p].initialized
  /\ \A l \in {"reset", "txrx"} : lineOwner[l] # p

\* C27: every plugin operation closes the controller it created before it returns,
\* whether its body succeeded or failed; the body runs only on a controller whose
\* creation succeeded; a handler that is not in an operation holds no SPI port, no
\* GPIO chip and no GPIO line.
C27_ControllerScopedToOperation ==
  /\ \A p \in Procs :
       /\ pc[p] = "idle" => HoldsNothing(p)
       /\ pc[p] = "call" =>
            /\ ctl[p].initialized /\ ctl[p].spi = "open" /\ ctl[p].chip
            /\ HoldsLines(p)
  /\ \A c \in DOMAIN hist :
       pc[hist[c].by] = "idle" => Returned(c)

\* C27 witness: one operation whose body failed and one whose body succeeded have
\* both returned, and nothing is held.
C27_Witness ==
  /\ Len(hist) = 2
  /\ hist[1].res = "TransportFailure" /\ hist[2].res = "ok"
  /\ \A p \in Procs : pc[p] = "idle" /\ ctl[p].spi = "closed"
  /\ \A l \in {"reset", "txrx"} : lineOwner[l] \notin Procs

(***************************************************************************)
(* SpecStatus: the body of the plugin's status operation on a ready        *)
(* controller: GetStatus, whose error ends the body, then                  *)
(* GetVersionString, GetRxFrequency, GetTxFrequency and GetMode, whose     *)
(* errors are discarded.                                                   *)
(***************************************************************************)
StatusBody ==
  <<Op("GetStatus", 0), Op("GetVersionString", 0), Op("GetRxFrequency", 0),
    Op("GetTxFrequency", 0), Op("GetMode", 0)>>

InitStatus ==
  \E f \in 0..MaxFaults : \E r \in {RegsWith(RegStat, v) : v \in 0..15} \cup {InvertedRegs} :
    InitReady(r, f, StatusBody)

\* status, err = ctrl.GetStatus(); if err != nil { return err }; the later calls
\* follow whatever the earlier ones returned
ScriptedStatus(p) ==
  /\ hist # <<>> => hist[1].res = "ok"
  /\ Scripted(p)

NextStatus ==
  \E p \in Procs :
    \/ ScriptedStatus(p)
    \/ GetStatus(p) \/ GetVersionString(p) \/ GetRxFrequency(p) \/ GetTxFrequency(p)
    \/ GetMode(p)

SpecStatus == InitStatus /\ [][NextStatus]_vars

\* C28: every transfer made through an SPIDevice is followed by the 10 microsecond
\* delay before the next transfer on that device, also when the transfer failed and
\* the caller went on to another operation.
C28_AsStated ==
  \A i \in DOMAIN bus : \A j \in DOMAIN bus :
    (i < j /\ bus[i].by = bus[j].by) => bus[i].slept

\* what the code does: the read of GetVersionString failed, no delay followed, and
\* GetRxFrequency made the next transfer
C28_TransferWithoutDelay ==
  /\ Len(bus) >= 3 /\ ~bus[2].ok /\ ~bus[2].slept
  /\ hist[bus[2].call].name = "GetVersionString"
  /\ hist[bus[3].call].name = "GetRxFrequency"

(***************************************************************************)
(* SpecSwitch: concurrent handlers of the plugin's set-switch and          *)
(* get-switch operations, each on a controller of its own.                 *)
(***************************************************************************)
SwitchMenu == {Op("SetTxRxSwitch", 1), Op("SetTxRxSwitch", 0), Op("GetTxRxSwitch", 0)}

NextSwitch ==
  \/ \E line \in {"reset", "txrx"} : OtherConsumer(line)
  \/ \E p \in Procs :
    \/ Handler(p)
    \/ \E o \in SwitchMenu : Invoke(p, o)
    \/ SetTxRxSwitch(p) \/ GetTxRxSwitch(p)

SpecSwitch == Init /\ [][NextSwitch]_vars

\* the set-switch operation of call c has completed and none was started after it
LastCompletedSet(c) ==
  /\ hist[c].name = "SetTxRxSwitch" /\ Succeeded(c)
  /\ pc[hist[c].by] = "idle"
  /\ \A d \in CallsOf("SetTxRxSwitch") : d <= c

\* C29: after a set-switch operation with tx = true has completed, the TX/RX line is
\* high until the next set-switch operation, whatever other operations run, and a
\* later get-switch operation reports tx = true.
C29_AsStated ==
  \A c \in DOMAIN hist :
    (LastCompletedSet(c) /\ hist[c].arg = 1) =>
      /\ lineLevel["txrx"] = 1
      /\ \A g \in CallsOf("GetTxRxSwitch") : (g > c /\ Succeeded(g)) => hist[g].val = 1

\* what the code does: the get-switch operation that follows requests the line as an
\* output at 0 for its own controller, and reports tx = false
C29_SwitchLowAfterNextOperation ==
  /\ Len(hist) = 2
  /\ hist[1].name = "SetTxRxSwitch" /\ hist[1].arg = 1 /\ Succeeded(1)
  /\ hist[2].name = "GetTxRxSwitch" /\ Succeeded(2) /\ hist[2].val = 0
  /\ lineLevel["txrx"] = 0

\* C30: each resource a controller acquired is released exactly once over its
\* lifetime: a second SX1255Controller.Close attempts no release.
C30_AsStated ==
  (Len(hist) = 2 /\ ~NeverReady /\ hist[1].name = "Close" /\ hist[2].name = "Close") =>
    SysCallsOf(2) = {}

\* what the code does: SPIDevice.Close does not forget its port, so the second Close
\* closes the port again; the lines and the chip are released once
C30_PortClosedAgain ==
  /\ Len(hist) = 2 /\ ~NeverReady /\ Returned(2)
  /\ hist[1].name = "Close" /\ hist[2].name = "Close"
  /\ ReleasesOf(1) = <<"spi", "txrx", "reset", "chip">>
  /\ ReleasesOf(2) = <<"spi">>

====
